---- MODULE Spec2Model ----
(***************************************************************************)
(* Roster reconciliation of two Home Assistant integrations:               *)
(*   - Hyperion: async_instances_to_entities_raw, a coroutine that         *)
(*     suspends at the client connect and at entity.async_remove           *)
(*     (homeassistant/components/hyperion/light.py);                       *)
(*   - motionEye: _async_process_motioneye_cameras, a synchronous          *)
(*     coordinator listener, and the _add_camera tasks it issues           *)
(*     (homeassistant/components/motioneye/__init__.py).                   *)
(* A behaviour follows one config entry, whose domain is either            *)
(* integration's; the two integrations share no state.                     *)
(***************************************************************************)
EXTENDS Integers, Sequences, FiniteSets, TLC

VARIABLES
    entry_domain,       \* the DOMAIN of the config entry that is followed
    entry_state,        \* config-entry lifecycle: "not_loaded", "setting_up", "loaded", "failed"
    \* ---- Hyperion (light.py)
    current_entities,   \* hass.data[DOMAIN][entry_id][LIGHT_DOMAIN][CONF_ENTITIES]: unique_id -> Hyperion
    registry,           \* unique ids that have an entity-registry entry made for the config entry
    hass_entities,      \* entities handed to async_add_entities and not removed since
    clients,            \* instance clients that are connected
    subscribed,         \* CONF_DISPATCHER_UNSUB is set: the instances-updated signal is connected
    listeners,          \* what the platform has registered with the host and not cancelled
    last_response,      \* history: the last instances-updated response the dispatcher delivered
    task,               \* the coroutines running async_instances_to_entities_raw
    ever_running,       \* history: unique ids a pass has seen with running=true
    ever_failed,        \* history: unique ids for which a connect has failed
    overlaps,           \* history: passes that started while another was in flight
    light_data,         \* hass.data[DOMAIN][entry_id] holds LIGHT_DOMAIN
    \* ---- motionEye (__init__.py)
    current_cameras,    \* the closure's current_cameras set
    devices,            \* device registry, devices of the entry: device_unique_id -> name
    add_tasks,          \* _add_camera tasks created and not yet run, in creation order
    camera_signals,     \* history: cameras sent with SIGNAL_CAMERA_ADD, in order
    process,            \* the running _async_process_motioneye_cameras call, or the history of the last
    me_entry,           \* hass.data[DOMAIN][entry_id], the setup_then_listen task and the unload
    \* ---- one Hyperion entity (light.py, class Hyperion)
    light,              \* the cached state: _brightness, _rgb_color, _effect, _icon
    other_light,        \* the cached state of a second entity of the entry
    pushed,             \* history: the last push callback of the entity's client
    components,         \* the component states the entity's client holds: component -> enabled
    call,               \* the running async_turn_on call of the entity, or the history of the last
    \* ---- the config entries of the host and the config flows in progress
    config_entries,     \* the entries of the domain, in the order they were added
    flows,              \* flow id -> the flow's step, input and result
    \* ---- the YAML platform of Hyperion (light.py, async_setup_platform)
    registry_entities,  \* registry.entities as the YAML platform iterates them, in order
    platform_call       \* history: the last call of async_setup_platform

hyp_vars == <<current_entities, registry, hass_entities, clients,
              subscribed, listeners, task, ever_running, ever_failed, overlaps>>
me_vars == <<current_cameras, devices, add_tasks, camera_signals, process>>
light_vars == <<light, other_light, pushed, components, call>>
flow_vars == <<config_entries, flows>>
yaml_vars == <<registry_entities, platform_call>>
vars == <<entry_domain, entry_state, hyp_vars, last_response, light_data, me_vars, me_entry, light_vars,
          flow_vars, yaml_vars>>

\* ---------------------------------------------------------------- bounds
MaxRoster == 2          \* records in one roster snapshot
MaxClients == 3         \* instance clients connected at the same time
MaxOverlaps == 1        \* passes of one behaviour that start while another is in flight
InstanceIds == {0, 1}
CameraIds == {1, 2}
Tasks == {1, 2}         \* coroutines of the pass that may be in flight together

\* ---------------------------------------------------------------- helpers
Keys(d) == DOMAIN d
Range(s) == {s[k] : k \in DOMAIN s}
Pop(d, k) == [x \in (DOMAIN d) \ {k} |-> d[x]]
Put(d, k, v) == [x \in (DOMAIN d) \cup {k} |-> IF x = k THEN v ELSE d[x]]
Get(d, k, default) == IF k \in DOMAIN d THEN d[k] ELSE default
EmptyDict == [x \in {} |-> TRUE]

\* ================================================================ Hyperion
DOMAIN_HYPERION == "hyperion"
DEFAULT_NAME == "Hyperion"
ServerId == "server"

\* A roster record is a dict: a key may be missing.
InstanceRecords ==
    {[instance |-> n, running |-> TRUE, friendly_name |-> "a"] : n \in InstanceIds}
    \cup {[instance |-> n, running |-> TRUE] : n \in InstanceIds}
    \cup {[instance |-> n, running |-> FALSE, friendly_name |-> "a"] : n \in InstanceIds}
    \cup {[running |-> TRUE, friendly_name |-> "a"]}

get_hyperion_unique_id(server_id, instance_id) == <<server_id, instance_id>>

HasInstance(instance) == "instance" \in DOMAIN instance
IsRunning(instance) == Get(instance, "running", FALSE)
UniqueIdOf(instance) == get_hyperion_unique_id(ServerId, instance.instance)

\* line 229: the record is passed over by the add loop
Skipped_IgnoresRunning(instance) == ~HasInstance(instance)
Skipped(instance) == ~HasInstance(instance) \/ ~IsRunning(instance)

\* line 233: the unique id already has an entity
AlreadyPresent_Never(unique_id, cur) == FALSE
AlreadyPresent(unique_id, cur) == unique_id \in Keys(cur)

\* lines 240-245: the entity constructed for a record and its connected client
NewEntity(instance, client) ==
    [unique_id |-> UniqueIdOf(instance),
     name |-> Get(instance, "friendly_name", DEFAULT_NAME),
     client |-> client]

\* line 246
AppendEntity_Forgotten(entities_to_add, entity) == entities_to_add
AppendEntity(entities_to_add, entity) == Append(entities_to_add, entity)

\* lines 238-239: a failed connect stores nothing
AfterFailure_Marks(cur, instance) ==
    Put(cur, UniqueIdOf(instance), NewEntity(instance, -1))
AfterFailure(cur, instance) == cur

\* line 249: the unique ids the delete loop iterates over
ToDelete_Swapped(cur, desired) == desired \ Keys(cur)
ToDelete(cur, desired) == Keys(cur) \ desired

\* The history of a pass: what a statement about the pass as a whole refers to.
NoHistory ==
    [instances |-> <<>>,        \* the records read, in order
     before |-> EmptyDict,      \* current_entities when the pass started
     before_failed |-> {},      \* ever_failed when the pass started
     failed |-> {},             \* positions of the records whose connect failed
     created |-> EmptyDict,     \* position of a record -> the entity created for it
     handed |-> <<>>,           \* the argument of async_add_entities
     repeats |-> FALSE, previous |-> <<>>, previous_failed |-> {}]

IdleTask ==
    [pc |-> "idle", initial |-> FALSE,
     n |-> 0,                   \* records read so far
     instance |-> <<>>,         \* the loop variable
     desired_unique_ids |-> {}, entities_to_add |-> <<>>,
     to_delete |-> {}, entity |-> <<>>,
     result |-> "none",         \* "running", then how the pass ended: "done" or "raised"
     \* The history is kept until the task's next pass starts, and only of a
     \* pass during which no other pass was in flight.
     recorded |-> FALSE, history |-> NoHistory]

Hist(tk) == IF tk.recorded THEN tk ELSE [tk EXCEPT !.history = NoHistory]

Active(t) == task[t].pc # "idle"
NoneActive == \A t \in Tasks : ~Active(t)
\* The event loop runs one coroutine at a time: a task at "loop" is running,
\* one at "connect" or "remove" is suspended in an await.
NoneRunning == \A t \in Tasks : task[t].pc # "loop"

\* The client objects some entity of the state refers to.
ClientsOf(entities) == {e.client : e \in entities}
Referenced ==
    clients \cup ClientsOf(Range(current_entities)) \cup ClientsOf(hass_entities)
    \cup UNION {ClientsOf(Range(task[t].history.before) \cup Range(task[t].history.created)
                          \cup Range(task[t].entities_to_add) \cup Range(task[t].history.handed)
                          \cup (IF task[t].pc = "remove" THEN {task[t].entity} ELSE {}))
                : t \in Tasks}
\* A new client object is distinct from every object still referred to.
NewClient == CHOOSE c \in 0..Cardinality(Referenced) : c \notin Referenced

\* The state a pass works on besides its own locals.
World == [cur |-> current_entities, reg |-> registry, hass |-> hass_entities]

\* The pass's history once it has ended: its locals are gone.
Ended(tk, result, handed) ==
    Hist([tk EXCEPT !.pc = "idle", !.n = 0, !.instance = <<>>,
                    !.desired_unique_ids = {}, !.entities_to_add = <<>>,
                    !.to_delete = {}, !.entity = <<>>,
                    !.result = result, !.history.handed = handed])

\* host: async_add_entities(entities) adds the entities to the platform, which
\* gets or creates their entity-registry entries
async_add_entities(w, entities) ==
    [w EXCEPT !.hass = @ \cup Range(entities),
              !.reg = @ \cup {e.unique_id : e \in Range(entities)}]

\* What the platform has registered: the callbacks connected to the
\* instances-updated signal of the entry, and the entry's update listeners.
NoListeners == [dispatcher |-> 0, update_listeners |-> 0, reloads |-> 0]
\* lines 264-271: async_dispatcher_connect, whose unsubscribe callback is
\* stored, and config_entry.add_update_listener, whose one is dropped
Listen(l) == [l EXCEPT !.dispatcher = @ + 1, !.update_listeners = @ + 1]
\* line 276: the stored unsubscribe callback is popped and called
Unsubscribe(l) == [l EXCEPT !.dispatcher = @ - 1]

\* no instances-updated response was delivered since the last signal with a roster
NoResponse == [kind |-> "none", response |-> <<>>, instances |-> <<>>]

\* line 256, and for the pass awaited by async_setup_entry lines 263-271
Finish(t, tk, w) ==
    LET w2 == async_add_entities(w, tk.entities_to_add) IN
    /\ task' = [task EXCEPT ![t] = Ended(tk, "done", tk.entities_to_add)]
    /\ current_entities' = w2.cur
    /\ registry' = w2.reg
    /\ hass_entities' = w2.hass
    /\ subscribed' = (subscribed \/ tk.initial)
    /\ listeners' = IF tk.initial THEN Listen(listeners) ELSE listeners
    /\ entry_state' = IF tk.initial THEN "loaded" ELSE entry_state

\* an exception leaves the coroutine: nothing after the raising line runs
Raise(t, tk, w) ==
    /\ task' = [task EXCEPT ![t] = Ended(tk, "raised", <<>>)]
    /\ current_entities' = w.cur
    /\ registry' = w.reg
    /\ hass_entities' = w.hass
    /\ subscribed' = subscribed
    /\ listeners' = listeners
    /\ entry_state' = IF tk.initial THEN "failed" ELSE entry_state

\* lines 249-251: the delete loop up to its next await, entity.async_remove();
\* a set is iterated in no particular order
DeleteLoop(t, tk, w) ==
    IF tk.to_delete = {}
    THEN Finish(t, tk, w)
    ELSE \E unique_id \in tk.to_delete :
            IF unique_id \notin Keys(w.cur)
            THEN Raise(t, tk, w)     \* KeyError from current_entities.pop
            ELSE /\ task' = [task EXCEPT ![t] =
                                [tk EXCEPT !.pc = "remove",
                                           !.entity = w.cur[unique_id],
                                           !.to_delete = @ \ {unique_id}]]
                 /\ current_entities' = Pop(w.cur, unique_id)
                 /\ registry' = w.reg
                 /\ hass_entities' = w.hass
                 /\ UNCHANGED <<subscribed, listeners, entry_state>>

\* lines 210-217: a pass starts. The roster is drawn record by record as the
\* add loop reads it (each record is read once, in order): history.instances
\* holds the records read so far. A pass that `repeats` is given the roster
\* of the task's previous pass.
StartPass(t, initial, repeats) ==
    /\ NoneRunning
    /\ task' = [u \in Tasks |->
                  IF u = t
                  THEN Hist([IdleTask EXCEPT
                          !.pc = "loop", !.initial = initial, !.result = "running",
                          !.recorded = \A o \in Tasks : ~Active(o),
                          !.history = [NoHistory EXCEPT
                              !.before = IF initial THEN EmptyDict ELSE current_entities,
                              !.before_failed = ever_failed,
                              !.repeats = repeats,
                              !.previous = IF repeats THEN task[t].history.instances ELSE <<>>,
                              !.previous_failed = IF repeats THEN task[t].history.failed ELSE {}]])
                  ELSE IF Active(u) THEN Hist([task[u] EXCEPT !.recorded = FALSE])
                  ELSE task[u]]

\* lines 258-262: async_setup_entry resets the entity dict and awaits a first
\* pass on the root client's instances
HyperionSetupEntry ==
    /\ entry_domain = DOMAIN_HYPERION
    /\ entry_state = "not_loaded"
    /\ StartPass(1, TRUE, FALSE)
    /\ entry_state' = "setting_up"
    /\ current_entities' = EmptyDict
    /\ light_data' = TRUE
    /\ last_response' = NoResponse
    /\ UNCHANGED <<yaml_vars, flow_vars, light_vars, me_entry, entry_domain, registry, hass_entities, clients,
                   subscribed, listeners, ever_running, ever_failed, overlaps, me_vars>>

FreeTask == CHOOSE t \in Tasks : ~Active(t) /\ \A u \in Tasks : ~Active(u) => t <= u

\* lines 205-208 and 263-269: the dispatcher runs async_instances_to_entities
\* as a task of its own for each instances-updated signal
InstancesUpdated(repeats) ==
    /\ entry_domain = DOMAIN_HYPERION
    /\ subscribed
    /\ \E t \in Tasks : ~Active(t)
    /\ repeats => task[FreeTask].result = "done" /\ task[FreeTask].recorded
    /\ NoneActive \/ overlaps < MaxOverlaps
    /\ overlaps' = IF NoneActive THEN overlaps ELSE overlaps + 1
    /\ StartPass(FreeTask, FALSE, repeats)
    /\ last_response' = NoResponse
    /\ UNCHANGED <<yaml_vars, flow_vars, light_vars, light_data, me_entry, entry_domain, entry_state, current_entities, registry, hass_entities,
                   clients, subscribed, listeners, ever_running, ever_failed, me_vars>>

\* lines 205-208: the responses the dispatcher may deliver: an empty one, one
\* without the data key, and one whose data is read by the pass
KEY_DATA == "data"
Responses ==
    {EmptyDict, [command |-> "instance-update", success |-> FALSE],
     [command |-> "instance-update", data |-> "instances"]}
\* line 206
HasData_Always(response) == TRUE
HasData(response) == response # EmptyDict /\ KEY_DATA \in DOMAIN response

\* lines 205-208: async_instances_to_entities returns at once on a response
\* without data, and awaits a pass on the data of the others
async_instances_to_entities(response) ==
    /\ entry_domain = DOMAIN_HYPERION
    /\ subscribed
    /\ NoneActive
    /\ last_response' = [kind |-> IF HasData(response) THEN "pass" ELSE "returned",
                         response |-> response, instances |-> <<>>]
    /\ IF HasData(response) THEN StartPass(FreeTask, FALSE, FALSE) ELSE UNCHANGED task
    /\ UNCHANGED <<yaml_vars, flow_vars, light_vars, light_data, me_entry, entry_domain,
                   entry_state, current_entities, registry, hass_entities, clients, subscribed,
                   listeners, ever_running, ever_failed, overlaps, me_vars>>

\* lines 227-235: the add loop reads its next record
NextInstance(t, instance) ==
    /\ task[t].pc = "loop"
    /\ LET k == task[t].n + 1
           h == task[t].history
           tk == [task[t] EXCEPT !.n = k, !.instance = instance,
                                 !.history.instances = Append(@, instance)]
       IN  /\ k <= MaxRoster
           /\ h.repeats => k <= Len(h.previous) /\ instance = h.previous[k]
           /\ IF Skipped(instance)
              THEN task' = [task EXCEPT ![t] = Hist(tk)]
              ELSE task' = [task EXCEPT ![t] =
                        Hist([tk EXCEPT
                                !.desired_unique_ids = @ \cup {UniqueIdOf(instance)},
                                !.pc = IF AlreadyPresent(UniqueIdOf(instance), current_entities)
                                       THEN "loop" ELSE "connect"])]
           /\ ever_running' = IF HasInstance(instance) /\ IsRunning(instance)
                              THEN ever_running \cup {UniqueIdOf(instance)}
                              ELSE ever_running
    /\ UNCHANGED <<yaml_vars, last_response, flow_vars, light_vars, light_data, me_entry, entry_domain, entry_state, current_entities, registry, hass_entities,
                   clients, subscribed, listeners, ever_failed, overlaps, me_vars>>

\* lines 227 and 248-256: the roster has no further record
EndOfInstances(t) ==
    /\ task[t].pc = "loop"
    /\ LET tk == task[t] IN
       /\ tk.history.repeats => tk.n = Len(tk.history.previous)
       /\ DeleteLoop(t, [tk EXCEPT !.to_delete =
                                      ToDelete(current_entities, tk.desired_unique_ids)],
                     World)
    /\ UNCHANGED <<yaml_vars, last_response, flow_vars, light_vars, light_data, me_entry, entry_domain, clients, ever_running, ever_failed, overlaps, me_vars>>

\* lines 238-239: without a client the loop goes on to the next record
OnNoClient_Raises(tk) == Ended(tk, "raised", <<>>)
OnNoClient(tk) == [tk EXCEPT !.pc = "loop"]

\* lines 235-239: the awaited connect returns no client
ConnectFailed(t) ==
    /\ task[t].pc = "connect"
    /\ NoneRunning
    /\ LET tk == task[t] IN
       /\ task' = [task EXCEPT ![t] =
                     Hist(OnNoClient([tk EXCEPT !.history.failed = @ \cup {tk.n}]))]
       /\ current_entities' = AfterFailure(current_entities, tk.instance)
       /\ ever_failed' = ever_failed \cup {UniqueIdOf(tk.instance)}
    /\ UNCHANGED <<yaml_vars, last_response, flow_vars, light_vars, light_data, me_entry, entry_domain, entry_state, registry, hass_entities, clients,
                   subscribed, listeners, ever_running, overlaps, me_vars>>

\* lines 235-246: the awaited connect returns a client
Connected(t) ==
    /\ task[t].pc = "connect"
    /\ NoneRunning
    /\ Cardinality(clients) < MaxClients
    /\ LET tk == task[t]
           entity == NewEntity(tk.instance, NewClient)
       IN  /\ clients' = clients \cup {NewClient}
           /\ current_entities' = Put(current_entities, entity.unique_id, entity)
           /\ task' = [task EXCEPT ![t] =
                         Hist([tk EXCEPT !.pc = "loop",
                                         !.entities_to_add = AppendEntity(@, entity),
                                         !.history.created = Put(@, tk.n, entity)])]
    /\ UNCHANGED <<yaml_vars, last_response, flow_vars, light_vars, light_data, me_entry, entry_domain, entry_state, registry, hass_entities, subscribed, listeners,
                   ever_running, ever_failed, overlaps, me_vars>>

\* lines 575-577: the entity's client is disconnected
async_will_remove_from_hass(cl, entity) == cl \ {entity.client}

\* lines 251-254, and 575-577 run by entity.async_remove(): the entity leaves
\* hass and its client disconnects; then its registry entry is removed and
\* the delete loop goes on
Removed(t) ==
    /\ task[t].pc = "remove"
    /\ NoneRunning
    /\ LET tk == task[t] IN
       /\ clients' = async_will_remove_from_hass(clients, tk.entity)
       /\ DeleteLoop(t, tk, [World EXCEPT !.hass = @ \ {tk.entity},
                                         !.reg = @ \ {tk.entity.unique_id}])
    /\ UNCHANGED <<yaml_vars, last_response, flow_vars, light_vars, light_data, me_entry, entry_domain, ever_running, ever_failed, overlaps, me_vars>>

\* host: unloading the light platform removes each of its entities from hass,
\* which runs async_will_remove_from_hass of each
RECURSIVE RemoveAll(_, _)
RemoveAll(cl, entities) ==
    IF entities = {} THEN cl
    ELSE LET entity == CHOOSE e \in entities : TRUE
         IN  RemoveAll(async_will_remove_from_hass(cl, entity), entities \ {entity})

\* lines 274-277, with the host's unload of the platform: the dispatcher
\* subscription is popped and called, the LIGHT_DOMAIN data of the entry is
\* popped. A pass in flight keeps the entity dict it read at line 214. The
\* history of the passes is dropped: what a pass left is no longer the state.
HyperionUnloadEntry ==
    /\ entry_domain = DOMAIN_HYPERION
    /\ entry_state = "loaded"
    /\ entry_state' = "unloaded"
    /\ clients' = RemoveAll(clients, hass_entities)
    /\ hass_entities' = {}
    /\ subscribed' = FALSE
    /\ listeners' = Unsubscribe(listeners)
    /\ light_data' = FALSE
    /\ task' = [t \in Tasks |-> [task[t] EXCEPT !.recorded = FALSE, !.history = NoHistory]]
    /\ UNCHANGED <<yaml_vars, last_response, flow_vars, light_vars, me_entry, entry_domain, current_entities, registry,
                   ever_running, ever_failed, overlaps, me_vars>>

HypInit ==
    /\ current_entities = EmptyDict
    /\ registry = {}
    /\ hass_entities = {}
    /\ clients = {}
    /\ subscribed = FALSE
    /\ listeners = NoListeners
    /\ task = [t \in Tasks |-> IdleTask]
    /\ ever_running = {}
    /\ ever_failed = {}
    /\ overlaps = 0

\* ================================================================ motionEye
DOMAIN_MOTIONEYE == "motioneye"
EntryId == "entry"
CameraNames == {"a", "b"}

\* A camera is a dict: KEY_ID or KEY_NAME may be missing.
CameraRecords ==
    {[id |-> c, name |-> n] : c \in CameraIds, n \in CameraNames}
    \cup {[id |-> c] : c \in CameraIds}
    \cup {[name |-> "a"]}

\* lines 55-57
get_motioneye_device_unique_id(config_entry_id, camera_id) == <<config_entry_id, camera_id>>

\* lines 90-92
is_acceptable_camera_IdOnly(camera) == "id" \in DOMAIN camera
is_acceptable_camera(camera) ==
    /\ camera # EmptyDict
    /\ "id" \in DOMAIN camera
    /\ "name" \in DOMAIN camera

\* line 222: the camera was added before
KnownCamera_Never(device_unique_id, current) == FALSE
KnownCamera(device_unique_id, current) == device_unique_id \in current

\* lines 225-235: hass.async_create_task(_add_camera(...)) creates a task and
\* does not await it
IssueAdd_Awaited(tasks, add) == tasks
IssueAdd(tasks, add) == Append(tasks, add)

\* lines 237-246: the devices of the entry that stay registered
KeptDevices_All(devs, inbound) == devs
KeptDevices(devs, inbound) == [d \in Keys(devs) \cap inbound |-> devs[d]]

\* The listener is not running; the history of its last call is kept until
\* its next call.
NoProcess ==
    [pc |-> "idle", has_cameras |-> FALSE,
     length |-> 0,              \* len(coordinator.data[KEY_CAMERAS])
     cameras |-> <<>>,          \* the cameras read so far, in order
     inbound_camera |-> {},
     result |-> "none", before_devices |-> EmptyDict, before_cameras |-> {},
     issued |-> <<>>, removed |-> {},
     repeats |-> FALSE, previous |-> <<>>,
     failed |-> FALSE]          \* the call follows a fetch that raised UpdateFailed

\* The entry's data in hass.data, its client, and the two coroutines that
\* work on them: setup_then_listen and async_unload_entry.
NoEntry ==
    [data |-> FALSE,            \* hass.data[DOMAIN] holds the entry id
     client |-> "none",         \* "open" after the login, "closed" after async_client_close
     on_unload |-> <<>>,        \* the CONF_ON_UNLOAD list
     called |-> <<>>,           \* the callbacks of the list that were called
     listening |-> FALSE,       \* the coordinator holds the listener
     camera_add |-> FALSE,      \* the platform is connected to SIGNAL_CAMERA_ADD
     update_listener |-> FALSE, \* the entry holds the update listener
     setup_then_listen |-> "none",  \* "forward", "listen", "refresh", then "done" or "raised"
     unload |-> "none",         \* "failed", or "closing" and then "done"
     late |-> {},               \* history: devices created since the unload popped the data
     logins |-> 0,              \* calls of async_client_login by async_setup_entry
     reauth_flows |-> 0,        \* reauthentication flows requested from the host
     fetched |-> FALSE]         \* coordinator.data is a dict; None until the first fetch that succeeds

\* the config entry of the motionEye server before any flow has changed it
MotionEyeEntry == [unique_id |-> EntryId, data |-> [url |-> "url", password |-> "old"]]

\* async_setup_platform before its first call: the host of the call, how it
\* ended, its registry actions and the import flows it started
NoPlatformCall == [host |-> "", result |-> "none", actions |-> <<>>, flows |-> 0]

\* ---- config flows: the flows of the host's flow manager
FlowIds == {"f1", "f2"}     \* the flows of one behaviour: an id is used once

\* a flow that was not started: the step whose form is shown, the source of
\* the flow's context, the data collected so far, the error of the form, the
\* type and reason of the last result, the outcome of the last connection
\* attempt, and the reloads of the entry the flow has requested
NoFlow ==
    [step |-> "none", source |-> "none", data |-> <<>>, errors |-> "",
     result |-> "none", reason |-> "", connected |-> FALSE,
     reloads |-> 0]

InProgress(flow) == flow.result \in {"form", "external", "external_done"}
Unused(flow) == flow.step = "none"
FreeFlow(fs) == CHOOSE f \in FlowIds : Unused(fs[f])

\* lines 120-133: one flow is started with source reauth and the entry's data
create_reauth_flow(fs, data) ==
    [fs EXCEPT ![FreeFlow(fs)] =
        [NoFlow EXCEPT !.step = "user", !.source = "reauth", !.data = data,
                       !.result = "form"]]

\* what client.async_client_login() does: it returns, or raises
\* MotionEyeClientInvalidAuthError or another MotionEyeClientError
Logins == {"ok", "invalid_auth", "error"}

\* lines 179-182: the client is closed, _create_reauth_flow (120-133) starts
\* one flow with source reauth, and False is returned
OnInvalidAuth_KeepsClient(entry) == [entry EXCEPT !.reauth_flows = @ + 1]
OnInvalidAuth(entry) == [entry EXCEPT !.client = "closed", !.reauth_flows = @ + 1]

\* lines 183-185: the client is closed and ConfigEntryNotReady is raised
OnClientError(entry) == [entry EXCEPT !.client = "closed"]

\* lines 167-206 and 263-264: the client is created and logs in once. If the
\* login succeeds the entry's data is stored, the closure starts with an
\* empty current_cameras, setup_then_listen is created as a task and
\* async_setup_entry returns True. The host sets an entry up again after
\* ConfigEntryNotReady, and not after False.
MotionEyeSetupEntry(login) ==
    /\ entry_domain = DOMAIN_MOTIONEYE
    /\ entry_state \in {"not_loaded", "setup_retry"}
    /\ login = "invalid_auth" => \E f \in FlowIds : Unused(flows[f])
    /\ LET entry == [NoEntry EXCEPT !.client = "open", !.logins = 1] IN
       \/ /\ login = "ok"
          /\ entry_state' = "loaded"
          /\ me_entry' = [entry EXCEPT !.data = TRUE, !.setup_then_listen = "forward"]
          /\ UNCHANGED flows
       \/ /\ login = "invalid_auth"
          /\ entry_state' = "setup_error"
          /\ me_entry' = OnInvalidAuth(entry)
          /\ flows' = create_reauth_flow(flows, config_entries[1].data)
       \/ /\ login = "error"
          /\ entry_state' = "setup_retry"
          /\ me_entry' = OnClientError(entry)
          /\ UNCHANGED flows
    /\ current_cameras' = {}
    /\ UNCHANGED <<yaml_vars, last_response, config_entries, light_vars, light_data, entry_domain, hyp_vars, devices, add_tasks, camera_signals, process>>

\* lines 96-111: listen_for_new_cameras, which the camera platform calls
\* from its setup, connects the platform to SIGNAL_CAMERA_ADD and stores
\* the unsubscribe
listen_for_new_cameras_AddsListener(entry) ==
    [entry EXCEPT !.listening = TRUE, !.on_unload = Append(@, "listener")]
listen_for_new_cameras(entry) ==
    [entry EXCEPT !.camera_add = TRUE, !.on_unload = Append(@, "camera_add")]

\* lines 249-254: the awaited setup of the platforms is done. The subscript
\* of hass.data is evaluated before the callback it stores is made: without
\* the entry's data the platform's setup raises KeyError, which the host
\* logs, and nothing is connected.
PlatformsSetUp ==
    /\ me_entry.setup_then_listen = "forward"
    /\ me_entry' =
          [(IF ~me_entry.data THEN me_entry ELSE listen_for_new_cameras(me_entry))
              EXCEPT !.setup_then_listen = "listen"]
    /\ UNCHANGED <<yaml_vars, last_response, flow_vars, light_vars, light_data, entry_domain, entry_state, hyp_vars, me_vars>>

\* lines 255-258: setup_then_listen goes on after the gather: the listener
\* is added to the coordinator and the first refresh is awaited. Without
\* the entry's data line 255 raises KeyError.
ListenerAdded ==
    /\ me_entry.setup_then_listen = "listen"
    /\ me_entry' =
          IF ~me_entry.data
          THEN [me_entry EXCEPT !.setup_then_listen = "raised"]
          ELSE [me_entry EXCEPT !.listening = TRUE,
                                !.on_unload = Append(@, "listener"),
                                !.setup_then_listen = "refresh"]
    /\ UNCHANGED <<yaml_vars, last_response, flow_vars, light_vars, light_data, entry_domain, entry_state, hyp_vars, me_vars>>

\* lines 258-261: the awaited first refresh returns, the coordinator having
\* called the listener, and the update listener is added
RefreshReturned ==
    /\ me_entry.setup_then_listen = "refresh"
    /\ process.pc = "idle"
    /\ process.result # "none"
    /\ me_entry' =
          IF ~me_entry.data
          THEN [me_entry EXCEPT !.setup_then_listen = "raised"]
          ELSE [me_entry EXCEPT !.update_listener = TRUE,
                                !.on_unload = Append(@, "update_listener"),
                                !.setup_then_listen = "done"]
    /\ UNCHANGED <<yaml_vars, last_response, flow_vars, light_vars, light_data, entry_domain, entry_state, hyp_vars, me_vars>>

\* lines 267-279: the platforms are unloaded; if one is not, the unload
\* returns False; else the entry's data is popped and the close of the
\* client is awaited
MotionEyeUnloadEntry(unload_ok) ==
    /\ entry_domain = DOMAIN_MOTIONEYE
    /\ entry_state = "loaded"
    /\ me_entry.unload \in {"none", "failed"}
    /\ process.pc = "idle"
    /\ me_entry' = IF unload_ok
                   THEN [me_entry EXCEPT !.data = FALSE, !.unload = "closing"]
                   ELSE [me_entry EXCEPT !.unload = "failed"]
    /\ UNCHANGED <<yaml_vars, last_response, flow_vars, light_vars, light_data, entry_domain, entry_state, hyp_vars, me_vars>>

\* what calling the callbacks of the popped list leaves subscribed
StillOn(flag, name, funcs) == flag /\ name \notin Range(funcs)

\* lines 279-283: the client is closed and each callback of the popped
\* CONF_ON_UNLOAD list is called
CallOnUnload_NotCalled(entry) == entry
CallOnUnload(entry) ==
    [entry EXCEPT !.called = entry.on_unload,
                  !.listening = StillOn(@, "listener", entry.on_unload),
                  !.camera_add = StillOn(@, "camera_add", entry.on_unload),
                  !.update_listener = StillOn(@, "update_listener", entry.on_unload)]

MotionEyeUnloaded ==
    /\ me_entry.unload = "closing"
    /\ process.pc = "idle"
    /\ me_entry' = [CallOnUnload(me_entry) EXCEPT !.client = "closed", !.unload = "done"]
    /\ entry_state' = "unloaded"
    /\ UNCHANGED <<yaml_vars, last_response, flow_vars, light_vars, light_data, entry_domain, hyp_vars, me_vars>>

\* lines 209-213: the coordinator calls the listener with its new data, which
\* holds KEY_CAMERAS or not. The data comes from a fetch that the coordinator
\* awaited: the _add_camera tasks created before, which await nothing, have
\* run by then. The listener is synchronous: until it returns no task runs. The cameras are drawn one by one as its loop reads them;
\* process.cameras holds those read so far. A call that `repeats` is
\* given the data of the previous call.
CallListener(has_cameras, length, repeats, failed) ==
    /\ entry_domain = DOMAIN_MOTIONEYE
    /\ me_entry.listening
    /\ process.pc = "idle"
    /\ add_tasks = <<>>
    /\ ~has_cameras => length = 0
    /\ repeats => /\ process.result \notin {"none", "raised"}
                  /\ has_cameras = process.has_cameras
                  /\ length = process.length
    /\ process' = [NoProcess EXCEPT !.pc = IF has_cameras THEN "loop" ELSE "idle",
                                    !.result = IF has_cameras THEN "running" ELSE "no_cameras",
                                    !.has_cameras = has_cameras,
                                    !.length = length,
                                    !.before_devices = devices,
                                    !.before_cameras = current_cameras,
                                    !.repeats = repeats,
                                    !.previous = IF repeats THEN process.cameras ELSE <<>>,
                                    !.failed = failed]
    /\ UNCHANGED <<yaml_vars, last_response, flow_vars, light_vars, light_data, entry_domain, entry_state, hyp_vars, current_cameras, devices,
                   add_tasks, camera_signals>>

\* lines 187-189: the fetch returned the data
CoordinatorUpdated(has_cameras, length, repeats) ==
    /\ CallListener(has_cameras, length, repeats, FALSE)
    /\ me_entry' = [me_entry EXCEPT !.fetched = TRUE]

\* line 212 on coordinator.data = None: `KEY_CAMERAS not in None` raises
\* TypeError
OnNoData == "raised"

\* lines 190-191: the fetch raised MotionEyeClientError and async_update_data
\* UpdateFailed. The coordinator keeps the data it had and calls its
\* listeners as after every refresh. The TypeError of line 212 leaves the
\* listener and the refresh that called it: at line 258 it ends
\* setup_then_listen.
CoordinatorUpdateFailed ==
    IF me_entry.fetched
    THEN /\ CallListener(process.has_cameras, process.length, TRUE, TRUE)
         /\ UNCHANGED me_entry
    ELSE /\ entry_domain = DOMAIN_MOTIONEYE
         /\ me_entry.listening
         /\ process.pc = "idle"
         /\ add_tasks = <<>>
         /\ process' = [NoProcess EXCEPT !.result = OnNoData, !.failed = TRUE,
                                         !.before_devices = devices,
                                         !.before_cameras = current_cameras]
         /\ me_entry' = IF me_entry.setup_then_listen = "refresh" /\ OnNoData = "raised"
                        THEN [me_entry EXCEPT !.setup_then_listen = "raised"]
                        ELSE me_entry
         /\ UNCHANGED <<yaml_vars, last_response, flow_vars, light_vars, light_data, entry_domain, entry_state, hyp_vars, current_cameras,
                        devices, add_tasks, camera_signals>>

\* lines 215-235: the loop reads its next camera
NextCamera(camera) ==
    /\ process.pc = "loop"
    /\ LET k == Len(process.cameras) + 1
           p == [process EXCEPT !.cameras = Append(@, camera)]
       IN  /\ k <= process.length
           /\ process.repeats => k <= Len(process.previous) /\ camera = process.previous[k]
           /\ IF ~is_acceptable_camera(camera)
              THEN \* line 217 returns from the listener
                   /\ process' = [p EXCEPT !.pc = "idle", !.result = "returned"]
                   /\ UNCHANGED <<current_cameras, add_tasks>>
              ELSE LET camera_id == camera.id
                       device_unique_id == get_motioneye_device_unique_id(EntryId, camera_id)
                       p2 == [p EXCEPT !.inbound_camera = @ \cup {device_unique_id}]
                       add == [camera_id |-> camera_id, camera |-> camera,
                               device_id |-> device_unique_id]
                   IN  IF KnownCamera(device_unique_id, current_cameras)
                       THEN /\ process' = p2
                            /\ UNCHANGED <<current_cameras, add_tasks>>
                       ELSE /\ process' = [p2 EXCEPT !.issued = Append(@, add)]
                            /\ current_cameras' = current_cameras \cup {device_unique_id}
                            /\ add_tasks' = IssueAdd(add_tasks, add)
    /\ UNCHANGED <<yaml_vars, last_response, flow_vars, light_vars, light_data, me_entry, entry_domain, entry_state, hyp_vars, devices, camera_signals>>

\* lines 215 and 237-246: the data has no further camera
EndOfCameras ==
    /\ process.pc = "loop"
    /\ Len(process.cameras) = process.length
    /\ LET kept == KeptDevices(devices, process.inbound_camera) IN
       /\ devices' = kept
       /\ process' = [process EXCEPT !.pc = "idle", !.result = "done",
                                     !.removed = Keys(devices) \ Keys(kept)]
    /\ UNCHANGED <<yaml_vars, last_response, flow_vars, light_vars, light_data, me_entry, entry_domain, entry_state, hyp_vars, current_cameras, add_tasks,
                   camera_signals>>

\* lines 136-159: the oldest pending _add_camera task runs
AddCamera ==
    /\ entry_domain = DOMAIN_MOTIONEYE
    /\ process.pc = "idle"
    /\ add_tasks # <<>>
    /\ LET a == Head(add_tasks) IN
       /\ devices' = Put(devices, a.device_id, a.camera.name)
       /\ camera_signals' = Append(camera_signals, a.camera)
       /\ me_entry' = IF me_entry.unload \in {"closing", "done"}
                      THEN [me_entry EXCEPT !.late = @ \cup {a.device_id}]
                      ELSE me_entry
    /\ add_tasks' = Tail(add_tasks)
    /\ UNCHANGED <<yaml_vars, last_response, flow_vars, light_vars, light_data, entry_domain, entry_state, hyp_vars, current_cameras, process>>

MeInit ==
    /\ current_cameras = {}
    /\ devices = EmptyDict
    /\ add_tasks = <<>>
    /\ camera_signals = <<>>
    /\ process = NoProcess

\* ================================================================ the Hyperion entity
KEY_EFFECT_SOLID == "Solid"
DEFAULT_COLOR == <<255, 255, 255>>
DEFAULT_BRIGHTNESS == 255
ICON_LIGHTBULB == "mdi:lightbulb"
ICON_EFFECT == "mdi:lava-lamp"
ICON_EXTERNAL_SOURCE == "mdi:television-ambient-light"
\* const.py line 2
COLOR_BLACK == <<0, 0, 0>>
\* hyperion.const of the client library
KEY_COMPONENTID_ALL == "ALL"
KEY_COMPONENTID_LEDDEVICE == "LEDDEVICE"
KEY_COMPONENTID_EXTERNAL_SOURCES == <<"BOBLIGHTSERVER", "GRABBER", "V4L">>
KEY_COMPONENTID_EFFECT == "EFFECT"
KEY_COMPONENTID_COLOR == "COLOR"

\* lines 481-488: the icon that goes with an effect
IconOf(effect) ==
    IF effect = KEY_EFFECT_SOLID THEN ICON_LIGHTBULB
    ELSE IF effect \in Range(KEY_COMPONENTID_EXTERNAL_SOURCES) THEN ICON_EXTERNAL_SOURCE
    ELSE ICON_EFFECT

\* lines 475-488: kwargs holds the arguments that are given (not None)
set_internal_state_Replaces(state, kwargs) ==
    [brightness |-> Get(kwargs, "brightness", DEFAULT_BRIGHTNESS),
     rgb_color |-> Get(kwargs, "rgb_color", DEFAULT_COLOR),
     effect |-> Get(kwargs, "effect", KEY_EFFECT_SOLID),
     icon |-> IconOf(Get(kwargs, "effect", KEY_EFFECT_SOLID))]
set_internal_state(state, kwargs) ==
    [brightness |-> Get(kwargs, "brightness", state.brightness),
     rgb_color |-> Get(kwargs, "rgb_color", state.rgb_color),
     effect |-> Get(kwargs, "effect", state.effect),
     icon |-> IF "effect" \in DOMAIN kwargs THEN IconOf(kwargs.effect) ELSE state.icon]

\* round() of the quotient num / den of naturals: to the nearest integer, a
\* tie to the even one
round_Truncates(num, den) == num \div den
round(num, den) ==
    LET q == num \div den
        r == num % den
    IN  IF 2 * r < den THEN q
        ELSE IF 2 * r > den THEN q + 1
        ELSE IF q % 2 = 0 THEN q ELSE q + 1

\* line 500: the percentage is taken
InRange_Always(brightness_pct) == TRUE
InRange(brightness_pct) == ~(brightness_pct < 0 \/ brightness_pct > 100)

\* line 502: int(round((brightness_pct * 255) / float(100)))
BrightnessOf(brightness_pct) == round(brightness_pct * 255, 100)

\* self._client.adjustment: a list of dicts, of which the first is read
Percentages == -2..102
SomePercentages == {-1, 0, 30, 50, 100, 101}
Adjustments(percentages) ==
    {<<>>, <<[id |-> "default"]>>} \cup {<<[id |-> "default", brightness |-> p]>> : p \in percentages}
\* self._client.visible_priority: a dict or None
Colors == {<<0, 0, 255>>, COLOR_BLACK}
NoPriority == EmptyDict
Priorities ==
    {NoPriority, [componentid |-> "V4L"], [componentid |-> "LEDDEVICE"],
     [componentid |-> KEY_COMPONENTID_EFFECT, owner |-> "Rainbow"]}
    \cup {[componentid |-> KEY_COMPONENTID_COLOR, value |-> [RGB |-> c]] : c \in Colors}

NoKwargs == EmptyDict
NoPush == [kind |-> "none", before |-> EmptyDict, called |-> FALSE, kwargs |-> NoKwargs,
           wrote |-> FALSE, adjustment |-> <<>>, priority |-> NoPriority]

\* The entity runs no async_turn_on; the history of its last call is kept
\* until the next.
NoCall ==
    [pc |-> "idle",             \* "await": suspended in the send of the last command of `sent`
     stage |-> "none",          \* what is awaited: "all", "led" (lines 373-391), or "plan"
     kwargs |-> NoKwargs,
     sent |-> <<>>,             \* the commands sent to the client, in order
     replies |-> <<>>,          \* what the sends returned, in order
     plan |-> <<>>,             \* the commands still to send once lines 394-399 have run
     result |-> "none",         \* "running", then "done" or "returned"
     was_on |-> TRUE,           \* is_on at line 372
     cached |-> EmptyDict]      \* the cached state read at lines 394-399

\* lines 288-298: Hyperion.__init__
LightInit ==
    /\ light = set_internal_state(EmptyDict,
                   [brightness |-> 255, rgb_color |-> DEFAULT_COLOR, effect |-> KEY_EFFECT_SOLID])
    /\ other_light = light
    /\ pushed = NoPush
    /\ components = [c \in {KEY_COMPONENTID_ALL, KEY_COMPONENTID_LEDDEVICE} |-> TRUE]
    /\ call = NoCall

\* lines 321-324: the client's is_on(), which is true when the components
\* ALL and LEDDEVICE are both enabled
is_on == components[KEY_COMPONENTID_ALL] /\ components[KEY_COMPONENTID_LEDDEVICE]

\* lines 490-492: the components-update callback; the client has taken the
\* new state of the component, the entity writes its state
update_components(component, state) ==
    /\ entry_domain = DOMAIN_HYPERION
    /\ components' = [components EXCEPT ![component] = state]
    /\ pushed' = [NoPush EXCEPT !.kind = "components", !.before = light, !.wrote = TRUE]
    /\ UNCHANGED <<yaml_vars, last_response, flow_vars, call, light, other_light, entry_domain, entry_state, hyp_vars, light_data, me_vars, me_entry>>

\* lines 494-505: the adjustment-update callback
update_adjustment(adjustment) ==
    /\ entry_domain = DOMAIN_HYPERION
    /\ LET p == [NoPush EXCEPT !.kind = "adjustment", !.before = light,
                               !.adjustment = adjustment]
       IN  IF adjustment = <<>>
           THEN light' = light /\ pushed' = p
           ELSE LET brightness_pct == Get(adjustment[1], "brightness", DEFAULT_BRIGHTNESS) IN
                IF ~InRange(brightness_pct)
                THEN light' = light /\ pushed' = p
                ELSE LET kwargs == [brightness |-> BrightnessOf(brightness_pct)] IN
                     /\ light' = set_internal_state(light, kwargs)
                     /\ pushed' = [p EXCEPT !.called = TRUE, !.kwargs = kwargs, !.wrote = TRUE]
    /\ UNCHANGED <<yaml_vars, last_response, flow_vars, call, other_light, components, entry_domain, entry_state, hyp_vars, light_data, me_vars, me_entry>>

\* lines 507-525: the priorities-update callback
update_priorities(visible_priority) ==
    /\ entry_domain = DOMAIN_HYPERION
    /\ LET p == [NoPush EXCEPT !.kind = "priorities", !.before = light,
                               !.priority = visible_priority]
           componentid == Get(visible_priority, "componentid", "")
           kwargs ==
               IF componentid \in Range(KEY_COMPONENTID_EXTERNAL_SOURCES)
               THEN [rgb_color |-> DEFAULT_COLOR, effect |-> componentid]
               ELSE IF componentid = KEY_COMPONENTID_EFFECT
               THEN [rgb_color |-> DEFAULT_COLOR, effect |-> visible_priority.owner]
               ELSE IF componentid = KEY_COMPONENTID_COLOR
               THEN [rgb_color |-> visible_priority.value.RGB, effect |-> KEY_EFFECT_SOLID]
               ELSE NoKwargs
       IN  IF visible_priority = NoPriority
           THEN light' = light /\ pushed' = p
           ELSE /\ light' = IF kwargs = NoKwargs THEN light ELSE set_internal_state(light, kwargs)
                /\ pushed' = [p EXCEPT !.called = (kwargs # NoKwargs), !.kwargs = kwargs,
                                       !.wrote = TRUE]
    /\ UNCHANGED <<yaml_vars, last_response, flow_vars, call, other_light, components, entry_domain, entry_state, hyp_vars, light_data, me_vars, me_entry>>

\* ---------------------------------------------------------------- async_turn_on
\* const.py line 8, the value _get_option(CONF_PRIORITY) returns (lines
\* 360-363) when the options hold none
DEFAULT_PRIORITY == 128
\* const.py line 7
DEFAULT_ORIGIN == "Home Assistant"

\* The commands of the client, by the keyword arguments they are sent with.
SetComponent(component, state) ==
    [command |-> "componentstate", component |-> component, state |-> state]
SetAdjustment(brightness_pct) == [command |-> "adjustment", brightness |-> brightness_pct]
Clear(priority) == [command |-> "clear", priority |-> priority]
SetEffect(priority, effect) ==
    [command |-> "effect", priority |-> priority, effect |-> [name |-> effect],
     origin |-> DEFAULT_ORIGIN]
SetColor(priority, rgb_color) ==
    [command |-> "color", priority |-> priority, color |-> rgb_color, origin |-> DEFAULT_ORIGIN]

\* color_util.color_hs_to_RGB(h, s) of the host: colorsys.hsv_to_rgb at
\* full value, each channel times 255 cut to an integer by int(); here for
\* the hues that are multiples of 60, where the sextant's fraction is 0
color_hs_to_RGB(hs_color) ==
    LET v == 255
        p == (255 * (100 - hs_color[2])) \div 100
        i == (hs_color[1] \div 60) % 6
    IN  IF i = 0 THEN <<v, p, p>>
        ELSE IF i = 1 THEN <<v, v, p>>
        ELSE IF i = 2 THEN <<p, v, p>>
        ELSE IF i = 3 THEN <<p, v, v>>
        ELSE IF i = 4 THEN <<p, p, v>>
        ELSE <<v, p, v>>

\* lines 406-408: int(round((float(brightness) * 100) / 255))
PercentageOf(brightness) == round(brightness * 100, 255)

\* line 402: the adjustment is sent
BrightnessDiffers(cached, brightness) == cached # brightness

\* line 429: the state the source `key` is set to
SourceState_AllOn(effect, key) == TRUE
SourceState(effect, key) == effect = key

\* lines 415 and 436: the mode of the call. An effect that is None or empty
\* is no effect.
ModeOf_NoSources(effect) ==
    IF effect # "" /\ effect # KEY_EFFECT_SOLID THEN "effect" ELSE "color"
ModeOf(effect) ==
    IF effect # "" /\ effect \in Range(KEY_COMPONENTID_EXTERNAL_SOURCES) THEN "external_source"
    ELSE IF effect # "" /\ effect # KEY_EFFECT_SOLID THEN "effect"
    ELSE "color"

\* lines 394-461: the key parameters from kwargs and the cached state, and
\* the commands the call sends with them as long as none fails
Plan(state, kwargs) ==
    LET brightness == Get(kwargs, "brightness", state.brightness)
        effect == Get(kwargs, "effect", state.effect)
        rgb_color == IF "hs_color" \in DOMAIN kwargs
                     THEN color_hs_to_RGB(kwargs.hs_color) ELSE state.rgb_color
        priority == DEFAULT_PRIORITY
        adjustment == IF BrightnessDiffers(state.brightness, brightness)
                      THEN <<SetAdjustment(PercentageOf(brightness))>> ELSE <<>>
        mode == ModeOf(effect)
    IN  adjustment \o
        (IF mode = "external_source"
         THEN <<Clear(priority)>> \o
              [k \in 1..Len(KEY_COMPONENTID_EXTERNAL_SOURCES) |->
                  SetComponent(KEY_COMPONENTID_EXTERNAL_SOURCES[k],
                               SourceState(effect, KEY_COMPONENTID_EXTERNAL_SOURCES[k]))]
         ELSE IF mode = "effect"
         THEN <<Clear(priority), SetEffect(priority, effect)>>
         ELSE <<SetColor(priority, rgb_color)>>)

\* The call sends `command` and is suspended until the client returns.
Send(c, command) == [c EXCEPT !.pc = "await", !.sent = Append(@, command)]

\* lines 393-399: the key parameters are read, and the first command of
\* the plan is sent
GetParameters(c) ==
    LET plan == Plan(light, c.kwargs) IN
    Send([c EXCEPT !.stage = "plan", !.cached = light, !.plan = Tail(plan)], Head(plan))

\* what the arguments of a turn_on service call may hold
SubDict(d, keys) == [k \in keys |-> d[k]]
TurnOnKwargs ==
    {SubDict(kw, keys) :
        kw \in [brightness : {128, 255}, effect : {"", KEY_EFFECT_SOLID, "Rainbow", "GRABBER"},
                hs_color : {<<180, 50>>}],
        keys \in SUBSET {"brightness", "effect", "hs_color"}}

\* lines 365-381: the call starts; the light being off, ALL is turned on
async_turn_on(kwargs) ==
    /\ entry_domain = DOMAIN_HYPERION
    /\ call.pc = "idle"
    /\ LET c == [NoCall EXCEPT !.kwargs = kwargs, !.result = "running", !.was_on = is_on] IN
       call' = IF ~is_on
               THEN Send([c EXCEPT !.stage = "all"], SetComponent(KEY_COMPONENTID_ALL, TRUE))
               ELSE GetParameters(c)
    /\ UNCHANGED <<yaml_vars, last_response, flow_vars, light, other_light, pushed, components, entry_domain, entry_state, hyp_vars,
                   light_data, me_vars, me_entry>>

\* lines 463-473: async_turn_off sends the one command that disables the
\* LED output
async_turn_off ==
    /\ entry_domain = DOMAIN_HYPERION
    /\ call.pc = "idle"
    /\ call' = Send([NoCall EXCEPT !.stage = "off", !.result = "running", !.was_on = is_on],
                    SetComponent(KEY_COMPONENTID_LEDDEVICE, FALSE))
    /\ UNCHANGED <<yaml_vars, last_response, flow_vars, light, other_light, pushed, components, entry_domain, entry_state, hyp_vars,
                   light_data, me_vars, me_entry>>

\* lines 365-473: neither call assigns _brightness, _rgb_color or _effect;
\* the cached state after the call's last send has returned is the one
\* before it
CachedAfter_Optimistic(state, c) ==
    IF c.result = "done" /\ c.stage = "plan"
    THEN set_internal_state(state, SubDict(c.kwargs, DOMAIN c.kwargs \cap {"brightness", "effect"}))
    ELSE state
CachedAfter(state, c) == state

\* a send that returns False ends the call: lines 381, 391, 412, 421, 433,
\* 442, 451, 461
OnFailure_GoesOn(c) == c
OnFailure(c) == [c EXCEPT !.pc = "idle", !.result = "returned", !.plan = <<>>]

\* the awaited send returns ok: the call goes on to its next command, or
\* ends
Replied(ok) ==
    /\ call.pc = "await"
    /\ LET c0 == [call EXCEPT !.replies = Append(@, ok)]
           c == IF ok THEN c0 ELSE OnFailure(c0)
       IN  call' =
             IF c.pc = "idle" THEN c
             ELSE IF c.stage = "all"
             THEN Send([c EXCEPT !.stage = "led"], SetComponent(KEY_COMPONENTID_LEDDEVICE, TRUE))
             ELSE IF c.stage = "led" THEN GetParameters(c)
             ELSE IF c.plan # <<>> THEN Send([c EXCEPT !.plan = Tail(@)], Head(c.plan))
             ELSE [c EXCEPT !.pc = "idle", !.result = "done"]
    /\ light' = CachedAfter(light, call')
    /\ UNCHANGED <<yaml_vars, last_response, flow_vars, other_light, pushed, components, entry_domain, entry_state, hyp_vars,
                   light_data, me_vars, me_entry>>

\* ================================================================ specifications
Init ==
    /\ entry_domain \in {DOMAIN_HYPERION, DOMAIN_MOTIONEYE}
    /\ entry_state = "not_loaded"
    /\ HypInit
    /\ MeInit
    /\ LightInit
    /\ light_data = FALSE
    /\ me_entry = NoEntry
    /\ config_entries = IF entry_domain = DOMAIN_MOTIONEYE THEN <<MotionEyeEntry>> ELSE <<>>
    /\ flows = [f \in FlowIds |-> NoFlow]
    /\ last_response = NoResponse
    /\ registry_entities = <<>>
    /\ platform_call = NoPlatformCall

PassStep(records) ==
    \E t \in Tasks :
        \/ \E instance \in records : NextInstance(t, instance)
        \/ EndOfInstances(t)
        \/ Connected(t)
        \/ ConnectFailed(t)
        \/ Removed(t)

MeNext ==
    \/ \E login \in Logins : MotionEyeSetupEntry(login)
    \/ CoordinatorUpdateFailed
    \/ \E has_cameras \in BOOLEAN, length \in 0..MaxRoster, repeats \in BOOLEAN :
          CoordinatorUpdated(has_cameras, length, repeats)
    \/ \E camera \in CameraRecords : NextCamera(camera)
    \/ EndOfCameras
    \/ AddCamera
    \/ PlatformsSetUp
    \/ ListenerAdded
    \/ RefreshReturned
    \/ MotionEyeUnloaded

\* Nothing of the entry is in flight.
MeQuiet == me_entry.setup_then_listen = "done" /\ add_tasks = <<>>

\* The signals of one entry arrive at any time: a pass may start while
\* another is suspended.
RunningRecords == {r \in InstanceRecords : DOMAIN r = {"instance", "running", "friendly_name"} /\ r.running}
Next ==
    \/ HyperionSetupEntry
    \/ InstancesUpdated(FALSE)
    \/ PassStep(RunningRecords)
    \/ HyperionUnloadEntry
    \/ MeNext
    \/ \E unload_ok \in BOOLEAN : MotionEyeUnloadEntry(unload_ok)
Spec == Init /\ [][Next]_vars

\* ---- reloads of the Hyperion entry, and signals without a receiver
MaxSetups == 2          \* setups of the entry in one behaviour

\* host, async_reload: an entry that was unloaded is set up again
SetUpAgain ==
    /\ entry_domain = DOMAIN_HYPERION
    /\ entry_state = "unloaded"
    /\ listeners.update_listeners < MaxSetups
    /\ entry_state' = "not_loaded"
    /\ UNCHANGED <<yaml_vars, last_response, flow_vars, light_vars, light_data, me_entry,
                   entry_domain, hyp_vars, me_vars>>

\* host, async_update_entry: the options of the entry are updated and every
\* update listener of the entry is called; lines 280-282: each call of
\* _async_options_updated requests a reload
OptionsUpdated ==
    /\ entry_domain = DOMAIN_HYPERION
    /\ entry_state = "loaded"
    /\ listeners' = [listeners EXCEPT !.reloads = listeners.update_listeners]
    /\ UNCHANGED <<yaml_vars, last_response, flow_vars, light_vars, light_data, me_entry,
                   entry_domain, entry_state, current_entities, registry, hass_entities,
                   clients, subscribed, task, ever_running, ever_failed, overlaps, me_vars>>

\* the rosters the server may change to while the entry is set up
Rosters == {<<>>, <<[instance |-> 0, running |-> TRUE, friendly_name |-> "a"]>>}

\* lines 235-237 and 260-269: the server's instance list changes while the
\* first pass of async_setup_entry awaits a connect; the instances-updated
\* signal is sent before line 265 has connected a receiver, and the pass goes
\* on with the list read at line 261
SignalUnheard(instances) ==
    /\ entry_domain = DOMAIN_HYPERION
    /\ entry_state = "setting_up"
    /\ ~subscribed
    /\ \E t \in Tasks : task[t].initial /\ task[t].pc = "connect"
    /\ last_response' = [kind |-> "unheard", response |-> <<>>, instances |-> instances]
    /\ UNCHANGED <<yaml_vars, flow_vars, light_vars, light_data, me_entry, entry_domain,
                   entry_state, hyp_vars, me_vars>>

ReloadNext ==
    \/ HyperionSetupEntry
    \/ \E instances \in Rosters : SignalUnheard(instances)
    \/ \E response \in Responses : async_instances_to_entities(response)
    \/ PassStep(RunningRecords)
    \/ NoneActive /\ HyperionUnloadEntry
    \/ SetUpAgain
    \/ OptionsUpdated
    \/ MeNext
    \/ \E unload_ok \in BOOLEAN : MeQuiet /\ MotionEyeUnloadEntry(unload_ok)
ReloadSpec == Init /\ [][ReloadNext]_vars

\* Each signal arrives after the pass of the previous one has ended: the
\* schedule in which the contract of a single pass is stated.
SeqNext ==
    \/ HyperionSetupEntry
    \/ \E repeats \in BOOLEAN : NoneActive /\ InstancesUpdated(repeats)
    \/ PassStep(InstanceRecords)
    \/ NoneActive /\ HyperionUnloadEntry
    \/ MeNext
    \/ \E unload_ok \in BOOLEAN : MeQuiet /\ MotionEyeUnloadEntry(unload_ok)
SeqSpec == Init /\ [][SeqNext]_vars

\* The push callbacks of one entity's client: the cached state of the entity
\* is all they change.
LightNext ==
    \/ \E adjustment \in Adjustments(SomePercentages) : update_adjustment(adjustment)
    \/ \E visible_priority \in Priorities : update_priorities(visible_priority)
    \/ \E component \in DOMAIN components, state \in BOOLEAN : update_components(component, state)
LightSpec == Init /\ [][LightNext]_vars

\* The turn_on calls of one entity. A call reads the cached state once
\* (lines 394-399) and changes none of it: the pushes that arrive before
\* that, between calls or while the call is suspended at lines 373-391, are
\* those a call can see, and they are followed until a call has read the
\* cached state.
TurnOnPriorities ==
    {[componentid |-> "V4L"], [componentid |-> KEY_COMPONENTID_EFFECT, owner |-> "Rainbow"],
     [componentid |-> KEY_COMPONENTID_COLOR, value |-> [RGB |-> <<0, 0, 255>>]]}
CanSee == call.stage # "plan"
TurnOnInit ==
    /\ Init
    /\ entry_domain = DOMAIN_HYPERION
TurnOnNext ==
    \/ \E kwargs \in TurnOnKwargs : async_turn_on(kwargs)
    \/ \E ok \in BOOLEAN : Replied(ok)
    \/ CanSee /\ update_adjustment(<<[brightness |-> 50]>>)
    \/ \E visible_priority \in TurnOnPriorities : CanSee /\ update_priorities(visible_priority)
    \/ \E component \in DOMAIN components, state \in BOOLEAN :
          call.pc = "idle" /\ update_components(component, state)
TurnOnSpec == TurnOnInit /\ [][TurnOnNext]_vars

\* lines 475-525: a push callback of the second entity's client sets that
\* entity's internal state
OtherPushes == {[rgb_color |-> <<0, 0, 255>>, effect |-> KEY_EFFECT_SOLID]}
OtherEntityPushed(kwargs) ==
    /\ entry_domain = DOMAIN_HYPERION
    /\ other_light' = set_internal_state(other_light, kwargs)
    /\ UNCHANGED <<yaml_vars, last_response, flow_vars, light, pushed, components, call, entry_domain,
                   entry_state, hyp_vars, light_data, me_vars, me_entry>>

\* The calls and the pushes of the entities of an entry that is set up: the
\* first pass registers the entities, whose clients then push and whose
\* services are called.
CacheRecords == {[instance |-> n, running |-> TRUE, friendly_name |-> "a"] : n \in InstanceIds}
CacheKwargs == {[brightness |-> 128], [effect |-> "Rainbow"]}
Added == entry_state = "loaded" /\ NoneActive /\ Cardinality(Keys(current_entities)) = 2
CacheNext ==
    \/ HyperionSetupEntry
    \/ \E t \in Tasks :
          \/ \E instance \in CacheRecords : NextInstance(t, instance)
          \/ EndOfInstances(t)
          \/ Connected(t)
          \/ ConnectFailed(t)
    \/ \E kwargs \in CacheKwargs : Added /\ async_turn_on(kwargs)
    \/ Added /\ async_turn_off
    \/ \E ok \in BOOLEAN : Replied(ok)
    \/ Added /\ update_adjustment(<<[brightness |-> 50]>>)
    \/ \E visible_priority \in TurnOnPriorities : Added /\ update_priorities(visible_priority)
    \/ \E state \in BOOLEAN :
          Added /\ call.pc = "idle" /\ update_components(KEY_COMPONENTID_LEDDEVICE, state)
    \/ \E kwargs \in OtherPushes : Added /\ OtherEntityPushed(kwargs)
CacheSpec == TurnOnInit /\ [][CacheNext]_vars

\* The adjustment pushes alone, over every percentage.
AdjustmentNext == \E adjustment \in Adjustments(Percentages) : update_adjustment(adjustment)
AdjustmentSpec == Init /\ [][AdjustmentNext]_vars

\* ================================================================ config flows
\* ---- Hyperion: the flow a user or a YAML platform starts
Hosts == {"h1", "h2", "h3"}
\* the id the server at a host reports: h1 and h2 are addresses of one server
async_id(host) == IF host = "h3" THEN "B" ELSE "A"
Tokens == {"static"}        \* tokens a user may type
IssuedToken == "issued"     \* the token the server issues when the request is granted

\* light.py lines 135-137: an entry of the domain has the server's id
HasEntry_Never(entries, hyperion_id) == FALSE
HasEntry(entries, hyperion_id) ==
    \E k \in DOMAIN entries : entries[k].unique_id = hyperion_id

\* the flow's own check, in the user step and before it creates an entry
AlreadyConfigured(entries, hyperion_id) == HasEntry(entries, hyperion_id)

\* the old-style unique id of the YAML entity: <host>:<port>-<instance>
OldStyleId(host, instance) == <<host, instance>>

\* a flow is started from the user interface
async_init(f) ==
    /\ entry_domain = DOMAIN_HYPERION
    /\ Unused(flows[f])
    /\ flows' = [flows EXCEPT ![f] = [NoFlow EXCEPT !.step = "user", !.source = "user",
                                                   !.result = "form"]]
    /\ UNCHANGED <<yaml_vars, last_response, config_entries, light_vars, light_data, me_vars, me_entry, entry_domain,
                   entry_state, hyp_vars>>

\* the last step of every path: the flow aborts if the server has an entry,
\* and creates the entry from its data otherwise
async_step_confirm(f, flow) ==
    LET hyperion_id == async_id(flow.data.host) IN
    IF AlreadyConfigured(config_entries, hyperion_id)
    THEN /\ flows' = [flows EXCEPT ![f] = [flow EXCEPT !.result = "abort",
                                                       !.reason = "already_configured"]]
         /\ UNCHANGED config_entries
    ELSE /\ flows' = [flows EXCEPT ![f] = [flow EXCEPT !.result = "create_entry"]]
         /\ config_entries' = Append(config_entries,
                                     [unique_id |-> hyperion_id, data |-> flow.data])

\* the user step with host and port: the server is connected to; the flow
\* aborts if the server has an entry; else the server is asked whether it
\* requires a token. An import flow brings the YAML's host.
async_step_user(f, host, connect, auth_required) ==
    /\ entry_domain = DOMAIN_HYPERION
    /\ InProgress(flows[f])
    /\ flows[f].step = "user"
    /\ flows[f].source = "import" => host = flows[f].data.host
    /\ LET flow == [flows[f] EXCEPT !.data = [host |-> host, token |-> ""],
                                    !.connected = connect, !.errors = ""] IN
       IF ~connect
       THEN /\ flows' = [flows EXCEPT ![f] = [flow EXCEPT !.errors = "connection_error"]]
            /\ UNCHANGED config_entries
       ELSE IF AlreadyConfigured(config_entries, async_id(host))
       THEN async_step_confirm(f, flow)
       ELSE IF auth_required = "error"
       THEN /\ flows' = [flows EXCEPT ![f] = [flow EXCEPT !.errors = "auth_required_error"]]
            /\ UNCHANGED config_entries
       ELSE IF auth_required = "yes"
       THEN /\ flows' = [flows EXCEPT ![f] = [flow EXCEPT !.step = "auth"]]
            /\ UNCHANGED config_entries
       ELSE async_step_confirm(f, flow)
    /\ UNCHANGED <<yaml_vars, last_response, light_vars, light_data, me_vars, me_entry, entry_domain, entry_state, hyp_vars>>

\* the auth step: a typed token is tried in a connection, or a new token is
\* to be created
async_step_auth(f, create_token, token, connect) ==
    /\ InProgress(flows[f])
    /\ flows[f].step = "auth"
    /\ LET flow == [flows[f] EXCEPT !.errors = ""] IN
       IF create_token
       THEN /\ flows' = [flows EXCEPT ![f] = [flow EXCEPT !.step = "create_token"]]
            /\ UNCHANGED config_entries
       ELSE IF ~connect
       THEN /\ flows' = [flows EXCEPT ![f] = [flow EXCEPT !.errors = "auth_error",
                                                          !.connected = FALSE]]
            /\ UNCHANGED config_entries
       ELSE async_step_confirm(f, [flow EXCEPT !.data.token = token, !.connected = TRUE])
    /\ UNCHANGED <<yaml_vars, last_response, light_vars, light_data, me_vars, me_entry, entry_domain, entry_state, hyp_vars>>

\* the create_token form is submitted: the token is requested from the
\* server and the flow waits in the external step
async_step_create_token(f) ==
    /\ InProgress(flows[f])
    /\ flows[f].step = "create_token"
    /\ flows' = [flows EXCEPT ![f] = [@ EXCEPT !.step = "create_token_external",
                                               !.result = "external"]]
    /\ UNCHANGED <<yaml_vars, last_response, config_entries, light_vars, light_data, me_vars, me_entry, entry_domain,
                   entry_state, hyp_vars>>

\* the step that follows the server's answer to the token request
TokenRequestDone_AlwaysSuccess(granted) == "create_token_success"
TokenRequestDone(granted) == IF granted THEN "create_token_success" ELSE "create_token_fail"

\* the server answers the token request
async_step_create_token_external(f, granted) ==
    /\ flows[f].step = "create_token_external"
    /\ flows[f].result = "external"
    /\ flows' = [flows EXCEPT ![f] =
          [@ EXCEPT !.step = TokenRequestDone(granted),
                    !.result = "external_done",
                    !.data.token = IF granted THEN IssuedToken ELSE ""]]
    /\ UNCHANGED <<yaml_vars, last_response, config_entries, light_vars, light_data, me_vars, me_entry, entry_domain,
                   entry_state, hyp_vars>>

\* the token was granted: it is tried in a connection
async_step_create_token_success(f, connect) ==
    /\ flows[f].step = "create_token_success"
    /\ flows[f].result = "external_done"
    /\ IF ~connect
       THEN /\ flows' = [flows EXCEPT ![f] =
                  [@ EXCEPT !.step = "auth", !.result = "form", !.connected = FALSE,
                            !.errors = "auth_new_token_not_work_error"]]
            /\ UNCHANGED config_entries
       ELSE async_step_confirm(f, [flows[f] EXCEPT !.connected = TRUE])
    /\ UNCHANGED <<yaml_vars, last_response, light_vars, light_data, me_vars, me_entry, entry_domain, entry_state, hyp_vars>>

\* the token was declined
async_step_create_token_fail(f) ==
    /\ flows[f].step = "create_token_fail"
    /\ flows[f].result = "external_done"
    /\ flows' = [flows EXCEPT ![f] =
          [@ EXCEPT !.step = "auth", !.result = "form",
                    !.errors = "auth_new_token_not_granted_error"]]
    /\ UNCHANGED <<yaml_vars, last_response, config_entries, light_vars, light_data, me_vars, me_entry, entry_domain,
                   entry_state, hyp_vars>>

\* lines 147-153: the first entity of the registry that has no config entry,
\* is of this platform and has the old-style unique id of the host; 0 if none
FirstMatch(es, host, instance) ==
    LET matching == {k \in DOMAIN es : /\ es[k].config_entry_id = ""
                                       /\ es[k].platform = DOMAIN_HYPERION
                                       /\ es[k].unique_id = OldStyleId(host, instance)}
    IN  IF matching = {} THEN 0
        ELSE CHOOSE k \in matching : \A j \in matching : k <= j

\* host: the entity of the platform with the unique id, if the registry has one
HasEntity(es, unique_id) ==
    \E k \in DOMAIN es : es[k].platform = DOMAIN_HYPERION /\ es[k].unique_id = unique_id

\* host, registry.async_get_or_create: the entity with the unique id is
\* returned if there is one, and created otherwise
async_get_or_create(es, unique_id) ==
    IF HasEntity(es, unique_id) THEN es
    ELSE Append(es, [unique_id |-> unique_id, config_entry_id |-> "",
                     platform |-> DOMAIN_HYPERION])

\* light.py lines 108-196, the YAML platform: the server is connected to
\* (PlatformNotReady if it is not); if an entry has its id nothing is done;
\* else the registry entry of the YAML entity gets the new unique id, or one
\* is got or created, and a task starts an import flow with the host. The
\* host's registry.async_update_entity raises ValueError if another entity of
\* the platform has the new unique id.
async_setup_platform(host, connect) ==
    /\ entry_domain = DOMAIN_HYPERION
    /\ LET future_unique_id == get_hyperion_unique_id(async_id(host), 0)
           k == FirstMatch(registry_entities, host, 0)
           called == [NoPlatformCall EXCEPT !.host = host]
       IN  IF ~connect
           THEN /\ platform_call' = [called EXCEPT !.result = "not_ready"]
                /\ UNCHANGED <<registry_entities, flows>>
           ELSE IF HasEntry(config_entries, async_id(host))
           THEN /\ platform_call' = [called EXCEPT !.result = "returned"]
                /\ UNCHANGED <<registry_entities, flows>>
           ELSE IF k # 0 /\ HasEntity(registry_entities, future_unique_id)
           THEN /\ platform_call' = [called EXCEPT !.result = "raised"]
                /\ UNCHANGED <<registry_entities, flows>>
           ELSE /\ \E f \in FlowIds : Unused(flows[f])
                /\ registry_entities' =
                      IF k # 0
                      THEN [registry_entities EXCEPT ![k].unique_id = future_unique_id]
                      ELSE async_get_or_create(registry_entities, future_unique_id)
                /\ flows' = [flows EXCEPT ![FreeFlow(flows)] =
                      [NoFlow EXCEPT !.step = "user", !.source = "import", !.result = "form",
                                     !.data = [host |-> host, token |-> ""]]]
                /\ platform_call' =
                      [called EXCEPT !.result = "migrated",
                                     !.actions = IF k # 0 THEN <<"async_update_entity">>
                                                 ELSE <<"async_get_or_create">>,
                                     !.flows = 1]
    /\ UNCHANGED <<last_response, config_entries, light_vars, light_data, me_vars, me_entry,
                   entry_domain, entry_state, hyp_vars>>

\* ---- motionEye: the reauthentication flow that _create_reauth_flow starts
Passwords == {"new", "newer"}   \* passwords a user may type

\* the host's async_update_entry: the data of the entry is replaced
async_update_entry(entries, entry_id, data) ==
    [k \in DOMAIN entries |->
        IF entries[k].unique_id = entry_id THEN [entries[k] EXCEPT !.data = data]
        ELSE entries[k]]

\* __init__.py lines 162-164 and 260: the update listener, if the entry
\* holds it, reloads the entry when its data is replaced
ListenerReloads_Always(entry) == 1
ListenerReloads(entry) == IF entry.update_listener THEN 1 ELSE 0

\* the form of the reauthentication flow is submitted: the credentials are
\* tried in a login; if it succeeds the entry's data is replaced, the entry
\* is reloaded and the flow aborts with reauth_successful. The entry whose
\* setup failed is not loaded: its reload is a setup.
async_step_reauth(f, password, login) ==
    /\ entry_domain = DOMAIN_MOTIONEYE
    /\ entry_state # "loaded"
    /\ InProgress(flows[f])
    /\ flows[f].source = "reauth"
    /\ LET flow == [flows[f] EXCEPT !.data.password = password,
                                    !.connected = login = "ok", !.errors = ""] IN
       IF login = "ok"
       THEN /\ config_entries' = async_update_entry(config_entries, EntryId, flow.data)
            /\ flows' = [flows EXCEPT ![f] =
                  [flow EXCEPT !.result = "abort", !.reason = "reauth_successful",
                               !.reloads = 1 + ListenerReloads(me_entry)]]
            /\ entry_state' = "not_loaded"
       ELSE /\ flows' = [flows EXCEPT ![f] =
                  [flow EXCEPT !.errors = IF login = "invalid_auth" THEN "invalid_auth"
                                          ELSE "cannot_connect"]]
            /\ UNCHANGED <<config_entries, entry_state>>
    /\ UNCHANGED <<yaml_vars, last_response, light_vars, light_data, me_vars, me_entry, entry_domain, hyp_vars>>

\* The flows of both integrations, with the setup of the motionEye entry
\* that a reauthentication follows from and leads to.
FlowNext ==
    \/ \E f \in FlowIds : async_init(f)
    \/ \E f \in FlowIds, host \in Hosts, connect \in BOOLEAN, auth_required \in {"yes", "no", "error"} :
          async_step_user(f, host, connect, auth_required)
    \/ \E f \in FlowIds, create_token \in BOOLEAN, token \in Tokens, connect \in BOOLEAN :
          async_step_auth(f, create_token, token, connect)
    \/ \E f \in FlowIds : async_step_create_token(f)
    \/ \E f \in FlowIds, granted \in BOOLEAN : async_step_create_token_external(f, granted)
    \/ \E f \in FlowIds, connect \in BOOLEAN : async_step_create_token_success(f, connect)
    \/ \E f \in FlowIds : async_step_create_token_fail(f)
    \/ \E host \in Hosts, connect \in BOOLEAN : async_setup_platform(host, connect)
    \/ \E login \in Logins : MotionEyeSetupEntry(login)
    \/ PlatformsSetUp
    \/ ListenerAdded
    \/ CoordinatorUpdated(FALSE, 0, FALSE)
    \/ RefreshReturned
    \/ \E f \in FlowIds, password \in Passwords, login \in Logins :
          async_step_reauth(f, password, login)
FlowSpec == Init /\ [][FlowNext]_vars

\* ---- the YAML platform on the registries an installation may have: entities
\* of the old component under the addresses of a server, of another
\* platform, of a config entry, and with the new unique id
YamlEntities ==
    {[unique_id |-> OldStyleId("h1", 0), config_entry_id |-> "", platform |-> DOMAIN_HYPERION],
     [unique_id |-> OldStyleId("h2", 0), config_entry_id |-> "", platform |-> DOMAIN_HYPERION],
     [unique_id |-> OldStyleId("h1", 0), config_entry_id |-> "", platform |-> "other"],
     [unique_id |-> OldStyleId("h1", 0), config_entry_id |-> "entry", platform |-> DOMAIN_HYPERION],
     [unique_id |-> get_hyperion_unique_id("A", 0), config_entry_id |-> "",
      platform |-> DOMAIN_HYPERION]}
\* host: the entities of a platform have distinct unique ids
YamlRegistries ==
    {<<>>} \cup {<<e>> : e \in YamlEntities}
           \cup {es \in {<<d, e>> : d, e \in YamlEntities} :
                    es[1].platform # es[2].platform \/ es[1].unique_id # es[2].unique_id}
YamlInit ==
    /\ entry_domain = DOMAIN_HYPERION
    /\ entry_state = "not_loaded"
    /\ HypInit
    /\ MeInit
    /\ LightInit
    /\ light_data = FALSE
    /\ me_entry = NoEntry
    /\ config_entries = <<>>
    /\ flows = [f \in FlowIds |-> NoFlow]
    /\ last_response = NoResponse
    /\ registry_entities \in YamlRegistries
    /\ platform_call = NoPlatformCall
YamlNext ==
    \/ \E host \in Hosts, connect \in BOOLEAN : async_setup_platform(host, connect)
    \/ \E f \in FlowIds : async_init(f)
    \/ \E f \in FlowIds, host \in Hosts, connect \in BOOLEAN, auth_required \in {"yes", "no", "error"} :
          async_step_user(f, host, connect, auth_required)
YamlSpec == YamlInit /\ [][YamlNext]_vars

\* ================================================================ claims
\* A pass whose history is recorded has ended; nothing has run since, so the
\* state is the one the pass left.
PassEnded(t) == task[t].pc = "idle" /\ task[t].recorded /\ task[t].result \in {"done", "raised"}
PassDone(t) == PassEnded(t) /\ task[t].result = "done"

Positions(instances) == DOMAIN instances
\* the unique ids of the records of a roster, and of its running records
RosterIds(instances) ==
    {UniqueIdOf(instances[k]) : k \in {j \in Positions(instances) : HasInstance(instances[j])}}
IsRunningRecord(instance) == HasInstance(instance) /\ IsRunning(instance)
RunningIds(instances) ==
    {UniqueIdOf(instances[k]) : k \in {j \in Positions(instances) : IsRunningRecord(instances[j])}}
\* the positions at which the pass awaited a connect
Attempted(h) == h.failed \cup Keys(h.created)
\* the unique id had an entity when the loop read record k
PresentAt(h, k, unique_id) ==
    \/ unique_id \in Keys(h.before)
    \/ \E j \in Keys(h.created) : j < k /\ h.created[j].unique_id = unique_id
\* the entity is gone: out of hass, its client disconnected, no registry entry
TornDown(entity) ==
    /\ entity \notin hass_entities
    /\ entity.client \notin clients
    /\ entity.unique_id \notin registry

\* C1: a record with running=false whose unique id is registered is neither
\* added nor removed by the pass: the same entity is in current_entities
\* after the pass and its registry entry exists.
C1_NotRunningIsKept ==
    \A t \in Tasks : PassEnded(t) =>
        LET h == task[t].history IN
        \A k \in Positions(h.instances) :
            LET r == h.instances[k] IN
            (HasInstance(r) /\ ~IsRunning(r) /\ UniqueIdOf(r) \in Keys(h.before)) =>
                /\ UniqueIdOf(r) \in Keys(current_entities)
                /\ current_entities[UniqueIdOf(r)] = h.before[UniqueIdOf(r)]
                /\ UniqueIdOf(r) \in registry

\* C2: every unique id registered before the pass whose instance is not in
\* the roster at all is removed by the pass: popped from current_entities,
\* its entity removed from hass with its client disconnected, its registry
\* entry removed.
C2_AbsentIsRemoved ==
    \A t \in Tasks : PassEnded(t) =>
        LET h == task[t].history IN
        \A unique_id \in Keys(h.before) \ RosterIds(h.instances) :
            /\ unique_id \notin Keys(current_entities)
            /\ TornDown(h.before[unique_id])

C2_Witness ==
    \E t \in Tasks :
        /\ PassDone(t)
        /\ task[t].history.instances # <<>>
        /\ Keys(task[t].history.before) \ RosterIds(task[t].history.instances) # {}
        /\ Keys(task[t].history.before) \cap RosterIds(task[t].history.instances) # {}

\* C3: for every running record with an instance id whose unique id has no
\* entity when the loop reads it, the pass awaits a connect; when the connect
\* succeeds the new entity is stored under the unique id and is handed to
\* async_add_entities at the end of the same pass.
C3_RunningIsAdded ==
    \A t \in Tasks : PassEnded(t) =>
        LET h == task[t].history IN
        \A k \in Positions(h.instances) :
            LET r == h.instances[k] IN
            (IsRunningRecord(r) /\ ~PresentAt(h, k, UniqueIdOf(r))) =>
                /\ k \in Attempted(h)
                /\ k \in Keys(h.created) =>
                      /\ UniqueIdOf(r) \in Keys(current_entities)
                      /\ current_entities[UniqueIdOf(r)] = h.created[k]
                      /\ h.created[k] \in Range(h.handed)
                      /\ h.created[k] \in hass_entities

C3_Witness ==
    \E t \in Tasks :
        /\ PassDone(t)
        /\ ~task[t].initial
        /\ Keys(task[t].history.created) # {}
        /\ Keys(task[t].history.before) # {}

\* C4 as stated: a second pass on the unchanged roster does nothing: no
\* connect, no entity or add task created, no entity or device removed.
C4_SecondPassDoesNothing ==
    /\ \A t \in Tasks : (PassEnded(t) /\ task[t].history.repeats) =>
          LET h == task[t].history IN
          /\ task[t].result = "done"
          /\ Attempted(h) = {}
          /\ h.handed = <<>>
          /\ current_entities = h.before
    /\ (process.pc = "idle" /\ process.repeats) =>
          /\ process.issued = <<>>
          /\ process.removed = {}

\* C4 amended: the second pass removes nothing, and it awaits a connect only
\* for unique ids whose connect failed in the first pass; the entities it
\* hands over are the ones those connects created. The second motionEye
\* call creates no add task and removes no device.
C4_SecondPassOnlyRetries ==
    /\ \A t \in Tasks : (PassEnded(t) /\ task[t].history.repeats) =>
          LET h == task[t].history IN
          /\ task[t].result = "done"
          /\ h.instances = h.previous
          /\ \A unique_id \in Keys(h.before) :
                /\ unique_id \in Keys(current_entities)
                /\ current_entities[unique_id] = h.before[unique_id]
          /\ \A k \in Attempted(h) :
                UniqueIdOf(h.instances[k]) \in
                    {UniqueIdOf(h.previous[j]) : j \in h.previous_failed}
          /\ Range(h.handed) = Range(h.created)
          /\ h.previous_failed = {} => (h.handed = <<>> /\ current_entities = h.before)
    /\ (process.pc = "idle" /\ process.repeats) =>
          /\ process.cameras = process.previous
          /\ process.issued = <<>>
          /\ process.removed = {}

C4_Witness ==
    \E t \in Tasks :
        /\ PassDone(t)
        /\ task[t].history.repeats
        /\ task[t].history.previous_failed # {}
        /\ Keys(task[t].history.created) # {}
        /\ Keys(task[t].history.before) # {}

C4_WitnessMotionEye ==
    /\ process.pc = "idle"
    /\ process.repeats
    /\ process.result = "done"
    /\ process.cameras # <<>>
    /\ Keys(devices) # {}

\* C5: passes of one config entry never run in parallel: no pass starts
\* while another is suspended at an await.
C5_NoParallelPasses == Cardinality({t \in Tasks : Active(t)}) <= 1

\* C6: the keys of current_entities are always among the unique ids that
\* some processed roster has shown with running=true.
C6_KeysWereSeenRunning == Keys(current_entities) \subseteq ever_running

C6_Witness ==
    /\ Keys(current_entities) # {}
    /\ ever_running \ Keys(current_entities) # {}
    /\ \E t \in Tasks : PassDone(t) /\ \E k \in Positions(task[t].history.instances) :
          /\ HasInstance(task[t].history.instances[k])
          /\ ~IsRunning(task[t].history.instances[k])

\* C7: a failed connect is not propagated and blocks nothing: the pass ends
\* normally, the records after the failed one are processed for addition,
\* every removal is performed and the entities whose connect succeeded are
\* handed to async_add_entities.
C7_FailedConnectIsNotFatal ==
    \A t \in Tasks : (PassEnded(t) /\ task[t].history.failed # {}) =>
        LET h == task[t].history IN
        /\ task[t].result = "done"
        /\ h.repeats => h.instances = h.previous
        /\ \A k \in Positions(h.instances) :
              (IsRunningRecord(h.instances[k]) /\ ~PresentAt(h, k, UniqueIdOf(h.instances[k])))
                  => k \in Attempted(h)
        /\ \A unique_id \in Keys(h.before) \ RunningIds(h.instances) :
              /\ unique_id \notin Keys(current_entities)
              /\ TornDown(h.before[unique_id])
        /\ Range(h.handed) = Range(h.created)
        /\ Range(h.created) \subseteq hass_entities

C7_Witness ==
    \E t \in Tasks :
        /\ PassDone(t)
        /\ \E k \in task[t].history.failed, j \in Keys(task[t].history.created) : k < j
        /\ Keys(task[t].history.before) \ Keys(current_entities) # {}

\* C8: an instance whose connect failed is left out of current_entities, and
\* every later pass whose roster reports it running awaits a connect for it
\* again, however often it failed before; in the pass in which the connect
\* succeeds the entity is registered.
C8_FailedIsRetried ==
    /\ \A t \in Tasks :
          (task[t].pc = "loop" /\ task[t].recorded /\ task[t].n \in task[t].history.failed) =>
              UniqueIdOf(task[t].instance) \notin Keys(current_entities)
    /\ \A t \in Tasks : PassEnded(t) =>
          LET h == task[t].history IN
          \A k \in Positions(h.instances) :
              LET r == h.instances[k] IN
              (/\ IsRunningRecord(r)
               /\ UniqueIdOf(r) \in h.before_failed
               /\ UniqueIdOf(r) \notin Keys(h.before)) =>
                  /\ \E j \in Attempted(h) : UniqueIdOf(h.instances[j]) = UniqueIdOf(r)
                  /\ (\E j \in Keys(h.created) : h.created[j].unique_id = UniqueIdOf(r)) =>
                        /\ UniqueIdOf(r) \in Keys(current_entities)
                        /\ current_entities[UniqueIdOf(r)] \in hass_entities
                        /\ UniqueIdOf(r) \in registry

C8_Witness ==
    \E t \in Tasks :
        /\ PassDone(t)
        /\ \E k \in Keys(task[t].history.created) :
              /\ task[t].history.created[k].unique_id \in task[t].history.before_failed
              /\ task[t].history.created[k].unique_id \notin Keys(task[t].history.before)
              /\ \E j \in task[t].history.failed :
                    j < k /\ UniqueIdOf(task[t].history.instances[j])
                                = task[t].history.created[k].unique_id

\* the positions of the records of a roster that name the unique id
PositionsOf(instances, unique_id) ==
    {k \in Positions(instances) : HasInstance(instances[k]) /\ UniqueIdOf(instances[k]) = unique_id}
Last(S) == CHOOSE k \in S : \A j \in S : j <= k
First(S) == CHOOSE k \in S : \A j \in S : k <= j
CamerasOf(cameras, camera_id) ==
    {k \in DOMAIN cameras : "id" \in DOMAIN cameras[k] /\ cameras[k].id = camera_id}

\* C9 as stated: for an id that several records of a roster name, the pass
\* makes one add, and the record that takes effect is the last one.
C9_LastSeenWins ==
    /\ \A t \in Tasks : PassEnded(t) =>
          LET h == task[t].history IN
          \A k \in Keys(h.created) :
              LET unique_id == h.created[k].unique_id IN
              /\ \A j \in Keys(h.created) : h.created[j].unique_id = unique_id => j = k
              /\ h.created[k].name =
                    Get(h.instances[Last(PositionsOf(h.instances, unique_id))],
                        "friendly_name", DEFAULT_NAME)
    /\ process.pc = "idle" =>
          \A a \in Range(process.issued) :
              /\ Cardinality({i \in DOMAIN process.issued :
                                 process.issued[i].device_id = a.device_id}) = 1
              /\ a.camera = process.cameras[Last(CamerasOf(process.cameras, a.camera_id))]

\* C9 amended: for an id that several records name, the pass makes one add,
\* and the record that takes effect is the first running record of that id
\* whose connect succeeds (Hyperion), the first record of that id (motionEye).
C9_FirstSeenWins ==
    /\ \A t \in Tasks : PassEnded(t) =>
          LET h == task[t].history IN
          \A k \in Keys(h.created) :
              LET unique_id == h.created[k].unique_id IN
              /\ \A j \in Keys(h.created) : h.created[j].unique_id = unique_id => j = k
              /\ k = First({j \in PositionsOf(h.instances, unique_id) :
                               IsRunning(h.instances[j]) /\ j \notin h.failed})
              /\ h.created[k].name = Get(h.instances[k], "friendly_name", DEFAULT_NAME)
              /\ current_entities[unique_id] = h.created[k]
              /\ Cardinality({i \in DOMAIN h.handed : h.handed[i].unique_id = unique_id}) = 1
    /\ process.pc = "idle" =>
          \A a \in Range(process.issued) :
              /\ Cardinality({i \in DOMAIN process.issued :
                                 process.issued[i].device_id = a.device_id}) = 1
              /\ a.camera = process.cameras[First(CamerasOf(process.cameras, a.camera_id))]

C9_Witness ==
    \E t \in Tasks :
        /\ PassDone(t)
        /\ \E k \in Keys(task[t].history.created) :
              \E j \in PositionsOf(task[t].history.instances, task[t].history.created[k].unique_id) :
                  /\ k < j
                  /\ IsRunning(task[t].history.instances[j])
                  /\ Get(task[t].history.instances[j], "friendly_name", DEFAULT_NAME)
                        # task[t].history.created[k].name

C9_WitnessMotionEye ==
    /\ process.pc = "idle"
    /\ \E a \in Range(process.issued) :
          \E j \in CamerasOf(process.cameras, a.camera_id) : process.cameras[j] # a.camera

\* C10: a pass on a roster without records removes every registered entity
\* and adds nothing (Hyperion: current_entities ends empty; motionEye: every
\* device of the entry is removed); with nothing registered it does nothing.
C10_EmptyRosterRemovesAll ==
    /\ \A t \in Tasks : (PassEnded(t) /\ task[t].history.instances = <<>>) =>
          LET h == task[t].history IN
          /\ task[t].result = "done"
          /\ current_entities = EmptyDict
          /\ \A entity \in Range(h.before) : TornDown(entity)
          /\ Attempted(h) = {}
          /\ h.handed = <<>>
    /\ (process.pc = "idle" /\ process.result = "done" /\ process.cameras = <<>>) =>
          /\ process.removed = Keys(process.before_devices)
          /\ process.issued = <<>>

C10_Witness ==
    \E t \in Tasks :
        /\ PassDone(t)
        /\ task[t].history.instances = <<>>
        /\ Cardinality(Keys(task[t].history.before)) > 1

C10_WitnessMotionEye ==
    /\ process.pc = "idle"
    /\ process.result = "done"
    /\ process.cameras = <<>>
    /\ process.removed # {}

\* the unique ids a pass created an entity for, and those it removed
AddedBy(h) == {h.created[k].unique_id : k \in Keys(h.created)}
RemovedBy(h) == Keys(h.before) \ Keys(current_entities)

\* C11: a pass in which no connect fails adds exactly the ids that are
\* running in the roster and were not registered, removes exactly the
\* registered ids that no record of the roster names, and the two sets are
\* disjoint.
C11_ExactDiff ==
    \A t \in Tasks : (PassEnded(t) /\ task[t].history.failed = {}) =>
        LET h == task[t].history IN
        /\ AddedBy(h) = RunningIds(h.instances) \ Keys(h.before)
        /\ RemovedBy(h) = Keys(h.before) \ RosterIds(h.instances)
        /\ AddedBy(h) \cap RemovedBy(h) = {}

\* A call of the motionEye listener that read a camera list has returned.
CallEnded == process.pc = "idle" /\ process.result \in {"done", "returned"}
HasId(camera) == "id" \in DOMAIN camera
DeviceIdOf(camera) == get_motioneye_device_unique_id(EntryId, camera.id)
\* the device ids of the cameras of a list
CameraDeviceIds(cameras) ==
    {DeviceIdOf(cameras[k]) : k \in {j \in DOMAIN cameras : HasId(cameras[j])}}
Malformed(cameras) == {k \in DOMAIN cameras : ~is_acceptable_camera(cameras[k])}
NoInstanceId(instances) == {k \in Positions(instances) : ~HasInstance(instances[k])}

\* C12: a record that lacks a required field is passed over and the rest of
\* the roster is processed: a motionEye call that read a malformed camera
\* reads the whole list and runs its removal loop, removing the devices of
\* no camera of the list; a Hyperion pass that read a record without an
\* instance id ends normally and awaits a connect for every later running
\* record without an entity.
C12_MalformedIsSkipped ==
    /\ (CallEnded /\ Malformed(process.cameras) # {}) =>
          /\ process.result = "done"
          /\ Len(process.cameras) = process.length
          /\ process.removed = Keys(process.before_devices) \ CameraDeviceIds(process.cameras)
    /\ \A t \in Tasks : (PassEnded(t) /\ NoInstanceId(task[t].history.instances) # {}) =>
          LET h == task[t].history IN
          /\ task[t].result = "done"
          /\ \A k \in Positions(h.instances) :
                (IsRunningRecord(h.instances[k]) /\ ~PresentAt(h, k, UniqueIdOf(h.instances[k])))
                    => k \in Attempted(h)

\* C13: after a motionEye call on a camera list, every device of the entry
\* is the device of a camera of the list: the devices of no camera of the
\* list have been removed.
C13_DevicesAreOfRoster ==
    (CallEnded /\ Len(process.cameras) = process.length) =>
        Keys(devices) \subseteq CameraDeviceIds(process.cameras)

\* C14: every acceptable camera of a processed list that had no device when
\* the call started has an add issued by the call, also a camera whose
\* device an earlier call removed.
C14_MissingCameraIsAdded ==
    CallEnded =>
        \A k \in DOMAIN process.cameras :
            LET camera == process.cameras[k] IN
            (is_acceptable_camera(camera) /\ DeviceIdOf(camera) \notin Keys(process.before_devices)) =>
                \E i \in DOMAIN process.issued : process.issued[i].device_id = DeviceIdOf(camera)

\* C15 as stated: an add is a task of its own that the pass does not await,
\* so no pass is ever suspended waiting for a connect.
C15_NoPassWaitsForAnAdd == \A t \in Tasks : task[t].pc # "connect"

\* C15 amended: the motionEye listener creates one task per add and goes on
\* without running it (while it loops, the adds it issued are all pending and
\* no device has changed); the Hyperion pass awaits each connect in its loop:
\* while a connect is pending it has read no further record, removed nothing
\* and handed nothing to async_add_entities.
C15_OnlyMotionEyeAddsAreTasks ==
    /\ process.pc = "loop" =>
          /\ add_tasks = process.issued
          /\ devices = process.before_devices
    /\ \A t \in Tasks : (task[t].pc = "connect" /\ task[t].recorded) =>
          LET h == task[t].history IN
          /\ Len(h.instances) = task[t].n
          /\ task[t].instance = h.instances[task[t].n]
          /\ RemovedBy(h) = {}
          /\ h.handed = <<>>
          /\ Range(h.created) \cap hass_entities = {}

C15_Witness ==
    \E t \in Tasks :
        /\ task[t].pc = "connect"
        /\ task[t].recorded
        /\ task[t].n < MaxRoster
        /\ Keys(task[t].history.before) \ task[t].desired_unique_ids # {}

C15_WitnessMotionEye ==
    /\ process.pc = "loop"
    /\ Len(process.issued) = 1
    /\ Len(process.cameras) > 1

CachedFields == {"brightness", "rgb_color", "effect"}
\* the percentage an adjustment push carries, the default without the key
PushedPercentage == Get(pushed.adjustment[1], "brightness", DEFAULT_BRIGHTNESS)
AdjustmentPushed == pushed.kind = "adjustment" /\ pushed.adjustment # <<>>

\* C18: an update of the cached state overwrites the fields it carries
\* (brightness, color, effect) and leaves the others as they were; the icon
\* is not a field of its own, it goes with the effect. A push that carries
\* no update leaves the cache as it was.
C18_UpdateIsAFieldMerge ==
    /\ light.icon = IconOf(light.effect)
    /\ pushed.kind # "none" =>
          \A f \in CachedFields :
              light[f] = IF pushed.called /\ f \in DOMAIN pushed.kwargs
                         THEN pushed.kwargs[f]
                         ELSE pushed.before[f]

C18_Witness ==
    /\ pushed.called
    /\ pushed.before.brightness = 255
    /\ pushed.before.rgb_color = <<255, 255, 255>>
    /\ DOMAIN pushed.kwargs = {"brightness"}
    /\ pushed.kwargs.brightness = 128
    /\ light.brightness = 128
    /\ light.rgb_color = <<255, 255, 255>>

\* C19: an adjustment push with an integer percentage p in 0..100 sets the
\* cached brightness to an integer nearest to p*255/100 (0 gives 0, 100
\* gives 255), and the cached brightness is always in 0..255.
C19_BrightnessIsRoundedPercentage ==
    /\ light.brightness \in 0..255
    /\ (AdjustmentPushed /\ PushedPercentage \in 0..100) =>
          /\ pushed.called
          /\ 100 * light.brightness - 255 * PushedPercentage \in -50..50
          /\ PushedPercentage = 0 => light.brightness = 0
          /\ PushedPercentage = 100 => light.brightness = 255

C19_Witness ==
    /\ AdjustmentPushed
    /\ PushedPercentage = 99
    /\ pushed.before.brightness = 0
    /\ light.brightness = 252

\* C20: an adjustment push whose percentage is below 0 or above 100, which
\* includes a push without a brightness key (the default is 255), leaves
\* brightness, color and effect as they were and writes no state.
C20_OutOfRangeIsDiscarded ==
    (AdjustmentPushed /\ (PushedPercentage < 0 \/ PushedPercentage > 100)) =>
        /\ light = pushed.before
        /\ ~pushed.called
        /\ ~pushed.wrote

C20_Witness ==
    /\ AdjustmentPushed
    /\ "brightness" \notin DOMAIN pushed.adjustment[1]
    /\ light.brightness = 128
    /\ light.effect # KEY_EFFECT_SOLID

C20_WitnessBelow ==
    /\ AdjustmentPushed
    /\ PushedPercentage < 0
    /\ light.brightness = 0

\* C16: once the unload of an entry has completed, nothing of the entry is
\* open or subscribed. Hyperion: the dispatcher subscription is cancelled,
\* the LIGHT_DOMAIN data is gone, no entity is left in hass and every client
\* is disconnected. motionEye: the entry's data is gone, the client is
\* closed, every callback of CONF_ON_UNLOAD was called once, in order, and
\* neither the coordinator listener nor the camera-add subscription nor the
\* update listener is left.
C16_UnloadClosesEverything ==
    entry_state = "unloaded" =>
        /\ entry_domain = DOMAIN_HYPERION =>
              /\ ~subscribed
              /\ ~light_data
              /\ hass_entities = {}
              /\ clients = {}
        /\ entry_domain = DOMAIN_MOTIONEYE =>
              /\ ~me_entry.data
              /\ me_entry.client = "closed"
              /\ me_entry.called = me_entry.on_unload
              /\ ~me_entry.listening
              /\ ~me_entry.camera_add
              /\ ~me_entry.update_listener

\* C16 for an unload that starts when no pass, no add and no setup of the
\* entry is in flight
C16_QuietUnload ==
    /\ entry_state = "unloaded"
    /\ \/ /\ entry_domain = DOMAIN_HYPERION
          /\ Cardinality(Keys(current_entities)) > 1
       \/ /\ entry_domain = DOMAIN_MOTIONEYE
          /\ Len(me_entry.called) = 3
          /\ Keys(devices) # {}

\* Every task of the entry has finished.
AllFinished ==
    /\ NoneActive
    /\ process.pc = "idle"
    /\ add_tasks = <<>>
    /\ me_entry.setup_then_listen \notin {"forward", "listen", "refresh"}

\* C17: an unload that races an add leaves nothing behind: once the entry is
\* unloaded and every task has finished, no entity is left in hass, no
\* client is connected, no device was created after the unload removed the
\* entry's data, and no task has failed on the removed data.
C17_UnloadRaceLeavesNothing ==
    (entry_state = "unloaded" /\ AllFinished) =>
        /\ hass_entities = {}
        /\ clients = {}
        /\ me_entry.late = {}
        /\ me_entry.client # "open"
        /\ me_entry.setup_then_listen # "raised"

\* C21: when the login raises the invalid-auth error, async_setup_entry
\* closes the client, requests exactly one reauthentication flow and returns
\* False: it has logged in once, stored no data of the entry, created no
\* coordinator listener, task or subscription, and since False was returned
\* the host does not set the entry up again: nothing of the entry changes
\* afterwards.
C21_InvalidAuthAsksForReauth ==
    [][entry_state' = "setup_error" =>
          /\ me_entry'.client = "closed"
          /\ me_entry'.reauth_flows = 1
          /\ me_entry'.logins = 1
          /\ ~me_entry'.data
          /\ ~me_entry'.fetched
          /\ ~me_entry'.listening /\ ~me_entry'.camera_add /\ ~me_entry'.update_listener
          /\ me_entry'.on_unload = <<>>
          /\ me_entry'.setup_then_listen = "none"
          /\ process' = NoProcess /\ add_tasks' = <<>> /\ devices' = EmptyDict
          /\ entry_state = "setup_error" => UNCHANGED <<me_entry, me_vars>>]_vars

C21_Witness ==
    /\ entry_domain = DOMAIN_MOTIONEYE
    /\ entry_state = "setup_error"
    /\ me_entry.reauth_flows = 1

\* C22: a connection error is transient. A login that fails with another
\* error than invalid auth closes the client, stores nothing of the entry
\* and leaves the entry to be set up again. A roster fetch that fails adds
\* no device, removes none, and the listener called after it ends without
\* an error.
C22_ConnectionErrorsAreTransient ==
    /\ entry_state = "setup_retry" =>
          /\ me_entry.client = "closed"
          /\ me_entry.reauth_flows = 0
          /\ ~me_entry.data
          /\ ~me_entry.listening
          /\ me_entry.setup_then_listen = "none"
    /\ (process.failed /\ process.pc = "idle") =>
          /\ process.result # "raised"
          /\ process.issued = <<>>
          /\ process.removed = {}
          /\ add_tasks = <<>> => devices = process.before_devices

\* C22, the part that holds: the login error, and a fetch that fails after
\* one that succeeded
C22_AfterAFetch ==
    /\ entry_state = "setup_retry" =>
          /\ me_entry.client = "closed"
          /\ me_entry.reauth_flows = 0
          /\ ~me_entry.data
          /\ ~me_entry.listening
          /\ me_entry.setup_then_listen = "none"
    /\ (process.failed /\ process.pc = "idle" /\ me_entry.fetched) =>
          /\ process.result # "raised"
          /\ process.issued = <<>>
          /\ process.removed = {}
          /\ add_tasks = <<>> => devices = process.before_devices

\* C23: the entity reports on exactly when its cached color is not the
\* black sentinel.
C23_OnIffNotBlack == is_on <=> light.rgb_color # COLOR_BLACK

\* ---------------------------------------------------------------- async_turn_on claims
\* The commands of the call that turn the device on (lines 373-391), and the
\* commands after them.
OnCommands == IF call.was_on THEN 0 ELSE 2
Rest == IF Len(call.sent) > OnCommands
        THEN SubSeq(call.sent, OnCommands + 1, Len(call.sent)) ELSE <<>>
\* the brightness and the effect of the call: the argument if given, the
\* cached value the call read otherwise
RequestedBrightness == Get(call.kwargs, "brightness", call.cached.brightness)
RequestedEffect == Get(call.kwargs, "effect", call.cached.effect)
SendsAdjustment == RequestedBrightness # call.cached.brightness
\* the commands of the output mode: those after the adjustment
ModeCommands ==
    IF Rest # <<>> /\ SendsAdjustment THEN Tail(Rest) ELSE Rest
ModeCommandNames == {"clear", "componentstate", "effect", "color"}

\* C28: the commands of a turn_on go out in a fixed order: if the light is
\* off, ALL on and then LEDDEVICE on, and if it is on neither; then the
\* brightness adjustment, exactly when the requested brightness differs from
\* the cached one; then the commands of the source, the effect or the
\* color. Each command is sent after the one before it has succeeded: when
\* a command reports failure the call ends and none is sent after it.
C28_FixedOrderAbortOnFailure ==
    LET sent == call.sent
        replies == call.replies
    IN  /\ Len(replies) <= Len(sent)
        /\ Len(sent) <= Len(replies) + 1
        /\ call.pc = "await" <=> Len(sent) = Len(replies) + 1
        /\ \A i \in 1..Len(replies) :
              ~replies[i] => i = Len(sent) /\ call.pc = "idle" /\ call.result = "returned"
        /\ call.result = "done" => Len(replies) = Len(sent) /\ ModeCommands # <<>>
        /\ ~call.was_on =>
              /\ Len(sent) >= 1 => sent[1] = SetComponent(KEY_COMPONENTID_ALL, TRUE)
              /\ Len(sent) >= 2 => sent[2] = SetComponent(KEY_COMPONENTID_LEDDEVICE, TRUE)
        /\ \A i \in 1..Len(Rest) :
              /\ Rest[i].command = "adjustment" <=> (i = 1 /\ SendsAdjustment)
              /\ Rest[i].command = "adjustment" =>
                    Rest[i] = SetAdjustment(PercentageOf(RequestedBrightness))
              /\ Rest[i].command # "adjustment" =>
                    /\ Rest[i].command \in ModeCommandNames
                    /\ Rest[i].command = "componentstate" =>
                          Rest[i].component \in Range(KEY_COMPONENTID_EXTERNAL_SOURCES)

\* a call on a light that was off, with a new brightness, of which the
\* third command failed; and one that sent everything
C28_Witness ==
    /\ ~call.was_on
    /\ call.result = "returned"
    /\ Len(call.sent) = 3
    /\ call.sent[3].command = "adjustment"
    /\ call.replies = <<TRUE, TRUE, FALSE>>

C28_WitnessDone ==
    /\ ~call.was_on
    /\ call.result = "done"
    /\ SendsAdjustment
    /\ Len(call.sent) > 4

\* C29: with an external source selected, the priority is cleared first,
\* then one component-state command is sent for each external source, in
\* the order of the list; in a call in which every command succeeded the
\* selected source alone is set to on and every other source to off.
C29_OneExternalSourceOn ==
    (call.cached # EmptyDict /\ RequestedEffect \in Range(KEY_COMPONENTID_EXTERNAL_SOURCES)) =>
        LET m == ModeCommands IN
        /\ m # <<>> => m[1] = Clear(DEFAULT_PRIORITY)
        /\ Len(m) <= 1 + Len(KEY_COMPONENTID_EXTERNAL_SOURCES)
        /\ \A j \in 2..Len(m) :
              /\ m[j].command = "componentstate"
              /\ m[j].component = KEY_COMPONENTID_EXTERNAL_SOURCES[j - 1]
              /\ m[j].state = (m[j].component = RequestedEffect)
        /\ call.result = "done" =>
              /\ Len(m) = 1 + Len(KEY_COMPONENTID_EXTERNAL_SOURCES)
              /\ {m[j].component : j \in {k \in 2..Len(m) : m[k].state}} = {RequestedEffect}

C29_Witness ==
    /\ call.result = "done"
    /\ "effect" \in DOMAIN call.kwargs
    /\ call.kwargs.effect = "GRABBER"
    /\ call.cached.effect = "Rainbow"

\* the cached effect is the source
C29_WitnessCached ==
    /\ call.result = "done"
    /\ "effect" \notin DOMAIN call.kwargs
    /\ call.cached.effect = "V4L"

\* C30: a call in which every command succeeded has applied exactly one
\* output mode, selected by the effect argument if given and by the cached
\* effect otherwise: the commands of an external source for the name of
\* one; clear and set_effect for another effect that is not Solid; and
\* for Solid or no effect one set_color, with the hs_color argument as RGB
\* if given and the cached color otherwise. A brightness-only call sends
\* the cached effect again.
C30_OneOutputMode ==
    call.result = "done" =>
        LET m == ModeCommands
            effect == RequestedEffect
            names == {m[j].command : j \in 1..Len(m)}
        IN  /\ effect \in Range(KEY_COMPONENTID_EXTERNAL_SOURCES) =>
                  names = {"clear", "componentstate"}
            /\ (effect \notin Range(KEY_COMPONENTID_EXTERNAL_SOURCES)
                    /\ effect \notin {"", KEY_EFFECT_SOLID}) =>
                  m = <<Clear(DEFAULT_PRIORITY), SetEffect(DEFAULT_PRIORITY, effect)>>
            /\ effect \in {"", KEY_EFFECT_SOLID} =>
                  /\ Len(m) = 1
                  /\ m[1].command = "color"
                  /\ m[1].priority = DEFAULT_PRIORITY
                  /\ m[1].color = IF "hs_color" \in DOMAIN call.kwargs
                                  THEN (IF call.kwargs.hs_color = <<180, 50>>
                                        THEN <<127, 255, 255>> ELSE <<>>)
                                  ELSE call.cached.rgb_color
            /\ (DOMAIN call.kwargs = {"brightness"} /\ call.cached.effect = "Rainbow") =>
                  m = <<Clear(DEFAULT_PRIORITY), SetEffect(DEFAULT_PRIORITY, "Rainbow")>>

\* a brightness-only call on a light that shows an effect
C30_Witness ==
    /\ call.result = "done"
    /\ DOMAIN call.kwargs = {"brightness"}
    /\ call.cached.effect = "Rainbow"
    /\ SendsAdjustment

C30_WitnessColor ==
    /\ call.result = "done"
    /\ DOMAIN call.kwargs = {"hs_color"}
    /\ call.cached.effect = KEY_EFFECT_SOLID
    /\ call.cached.rgb_color = <<0, 0, 255>>

C30_WitnessCachedColor ==
    /\ call.result = "done"
    /\ "effect" \in DOMAIN call.kwargs /\ call.kwargs.effect = KEY_EFFECT_SOLID
    /\ "hs_color" \notin DOMAIN call.kwargs
    /\ call.cached.effect = "Rainbow"

\* C27: however the passes of one entry interleave at their awaits, once
\* all of them have finished each unique id has at most one live entity: the
\* entities handed to async_add_entities and not removed are exactly the
\* values of current_entities, no two of them share a unique id, and every
\* connected client is the client of an entity of current_entities.
C27_OneLiveEntityPerId ==
    (entry_domain = DOMAIN_HYPERION /\ entry_state = "loaded" /\ NoneActive) =>
        /\ hass_entities = Range(current_entities)
        /\ \A e1, e2 \in hass_entities : e1.unique_id = e2.unique_id => e1 = e2
        /\ clients = ClientsOf(Range(current_entities))

\* ---------------------------------------------------------------- C24
\* C24: a Hyperion flow whose user step connects to a server whose id has a
\* config entry aborts and creates no entry, and whatever user flows and YAML
\* imports have run, no two config entries have the same server id.
OneEntryPerServer(entries) ==
    \A j, k \in DOMAIN entries : entries[j].unique_id = entries[k].unique_id => j = k
C24_WitnessImport ==
    \E f \in FlowIds :
        /\ flows[f].source = "import"
        /\ flows[f].result = "abort"

\* ---------------------------------------------------------------- C25
\* C25: a Hyperion flow enters create_token from the auth step only, goes
\* from create_token to create_token_external and from there to
\* create_token_success with the issued token, if the request was granted,
\* or to create_token_fail. From create_token_fail it returns to the auth
\* step with auth_new_token_not_granted_error; from create_token_success it
\* returns to the auth step with auth_new_token_not_work_error if the
\* connection with the token fails. None of these steps creates an entry: a
\* flow in one of the four steps creates its entry, with the issued token in
\* its data, only in create_token_success after the connection.
TokenSteps == {"create_token", "create_token_external", "create_token_success",
               "create_token_fail"}
Entered(a, b, step) == b.step = step /\ a.step # step
C25_TokenCreationSteps ==
    [][\A f \in FlowIds :
        LET a == flows[f]
            b == flows'[f]
            created == config_entries' # config_entries
        IN  /\ Entered(a, b, "create_token") => a.step = "auth"
            /\ Entered(a, b, "create_token_external") => a.step = "create_token"
            /\ Entered(a, b, "create_token_success") =>
                  a.step = "create_token_external" /\ b.data.token = IssuedToken
            /\ Entered(a, b, "create_token_fail") =>
                  a.step = "create_token_external" /\ b.data.token # IssuedToken
            /\ a.step = "create_token" /\ b # a =>
                  b.step = "create_token_external" /\ ~created
            /\ a.step = "create_token_external" /\ b # a =>
                  b.step \in {"create_token_success", "create_token_fail"} /\ ~created
            /\ a.step = "create_token_fail" /\ b # a =>
                  /\ b.step = "auth"
                  /\ b.result = "form"
                  /\ b.errors = "auth_new_token_not_granted_error"
                  /\ ~created
            /\ a.step = "create_token_success" /\ InProgress(a) /\ b # a =>
                  IF b.connected
                  THEN \/ /\ b.result = "create_entry"
                          /\ config_entries' =
                                Append(config_entries,
                                       [unique_id |-> async_id(a.data.host),
                                        data |-> [host |-> a.data.host, token |-> IssuedToken]])
                       \/ /\ b.result = "abort"
                          /\ HasEntry(config_entries, async_id(a.data.host))
                          /\ ~created
                  ELSE /\ b.step = "auth"
                       /\ b.result = "form"
                       /\ b.errors = "auth_new_token_not_work_error"
                       /\ ~created
            /\ a.step \in TokenSteps /\ b # a /\ created =>
                  a.step = "create_token_success" /\ b.connected]_vars

\* A flow has created its entry from create_token_success, with the issued
\* token.
C25_Witness ==
    \E f \in FlowIds, k \in DOMAIN config_entries :
        /\ flows[f].step = "create_token_success"
        /\ flows[f].result = "create_entry"
        /\ config_entries[k].data = flows[f].data
        /\ config_entries[k].data.token = IssuedToken

\* A flow is back in the auth step after the token was declined.
C25_WitnessDeclined ==
    \E f \in FlowIds :
        flows[f].step = "auth" /\ flows[f].errors = "auth_new_token_not_granted_error"

\* A flow is back in the auth step after the issued token did not work.
C25_WitnessNotWork ==
    \E f \in FlowIds :
        flows[f].step = "auth" /\ flows[f].errors = "auth_new_token_not_work_error"

\* ---------------------------------------------------------------- C26
\* C26: when the form of a motionEye reauthentication flow is submitted and
\* the login succeeds, the data of the entry is replaced by the submitted
\* data, the flow ends with abort reason reauth_successful, the entries are
\* as many as before, and the entry is reloaded once: it is not loaded and
\* the host sets it up.
C26_ReauthReplacesData ==
    [][\A f \in FlowIds :
        /\ flows[f].source = "reauth"
        /\ InProgress(flows[f])
        /\ flows'[f].connected
        => /\ flows'[f].result = "abort"
           /\ flows'[f].reason = "reauth_successful"
           /\ Len(config_entries') = Len(config_entries)
           /\ config_entries' = <<[unique_id |-> EntryId, data |-> flows'[f].data]>>
           /\ flows'[f].reloads = 1
           /\ entry_state = "setup_error"
           /\ entry_state' = "not_loaded"]_vars

\* The flow has replaced the password, and the setup that followed has
\* logged in once with it.
C26_Witness ==
    \E f \in FlowIds :
        /\ flows[f].source = "reauth"
        /\ flows[f].reason = "reauth_successful"
        /\ config_entries[1].data.password \in Passwords
        /\ entry_state = "loaded"
        /\ me_entry.logins = 1

\* ---------------------------------------------------------------- C31
\* C31: a call of async_setup_platform that has the server's id returns
\* without a registry action and without a flow if a config entry has the
\* id. Otherwise it makes one registry action, which gives the new unique id
\* to the first entity of the platform that has no config entry and the
\* old-style id of the host or, if there is none, gets or creates the entity
\* with the new unique id; and it starts one import flow for the host.
OneImportFlow(host) ==
    \E f \in FlowIds :
        /\ Unused(flows[f])
        /\ flows'[f].source = "import"
        /\ flows'[f].data.host = host
        /\ InProgress(flows'[f])
        /\ \A g \in FlowIds \ {f} : flows'[g] = flows[g]
MigratesOnce(c) ==
    LET future_unique_id == get_hyperion_unique_id(async_id(c.host), 0)
        old == {k \in DOMAIN registry_entities :
                   /\ registry_entities[k].config_entry_id = ""
                   /\ registry_entities[k].platform = DOMAIN_HYPERION
                   /\ registry_entities[k].unique_id = OldStyleId(c.host, 0)}
    IN  /\ Len(c.actions) = 1
        /\ c.flows = 1
        /\ OneImportFlow(c.host)
        /\ IF old # {}
           THEN \E k \in old :
                   /\ \A j \in old : k <= j
                   /\ c.actions = <<"async_update_entity">>
                   /\ registry_entities' =
                         [registry_entities EXCEPT ![k].unique_id = future_unique_id]
           ELSE /\ c.actions = <<"async_get_or_create">>
                /\ HasEntity(registry_entities', future_unique_id)
                /\ \/ registry_entities' = registry_entities
                   \/ /\ ~HasEntity(registry_entities, future_unique_id)
                      /\ Len(registry_entities') = Len(registry_entities) + 1
                      /\ SubSeq(registry_entities', 1, Len(registry_entities)) = registry_entities
ReturnsAtOnce(c) ==
    /\ c.actions = <<>>
    /\ c.flows = 0
    /\ UNCHANGED <<registry_entities, flows>>
C31_OneRegistryActionOneFlow ==
    [][platform_call' # platform_call /\ platform_call'.result # "not_ready"
       => IF HasEntry(config_entries, async_id(platform_call'.host))
          THEN ReturnsAtOnce(platform_call')
          ELSE MigratesOnce(platform_call')]_vars

\* The same, for the calls in which the new unique id is not the id of another
\* entity of the platform when the old-style entity is to get it.
C31_UnlessIdInUse ==
    [][/\ platform_call' # platform_call
       /\ platform_call'.result # "not_ready"
       /\ ~ /\ FirstMatch(registry_entities, platform_call'.host, 0) # 0
            /\ HasEntity(registry_entities,
                         get_hyperion_unique_id(async_id(platform_call'.host), 0))
       => IF HasEntry(config_entries, async_id(platform_call'.host))
          THEN ReturnsAtOnce(platform_call')
          ELSE MigratesOnce(platform_call')]_vars

\* ---------------------------------------------------------------- C32
\* C32: a motionEye unload in which a platform does not unload changes
\* nothing but its own result: the entry's data stays, the client stays open
\* and no callback of CONF_ON_UNLOAD is called. An unload in which the
\* platforms unload removes the entry's data and, when it has completed, has
\* closed the client and called each callback of the list once.
NoDuplicates(seq) == \A j, k \in DOMAIN seq : seq[j] = seq[k] => j = k
C32_FailedUnloadChangesNothing ==
    [][/\ me_entry'.unload = "failed" /\ me_entry.unload # "failed" =>
             /\ me_entry' = [me_entry EXCEPT !.unload = "failed"]
             /\ me_entry'.data
             /\ me_entry'.client = "open"
             /\ me_entry'.called = <<>>
             /\ UNCHANGED <<me_vars, entry_state>>
       /\ me_entry'.unload = "closing" /\ me_entry.unload # "closing" =>
             /\ ~me_entry'.data
             /\ me_entry'.called = <<>>
       /\ me_entry'.unload = "done" /\ me_entry.unload # "done" =>
             /\ ~me_entry'.data
             /\ me_entry'.client = "closed"
             /\ me_entry'.called = me_entry.on_unload
             /\ me_entry'.on_unload = me_entry.on_unload
             /\ NoDuplicates(me_entry'.called)]_vars

\* An unload has failed on an entry that holds its three callbacks.
C32_Witness ==
    /\ me_entry.unload = "failed"
    /\ Len(me_entry.on_unload) = 3
    /\ me_entry.data

\* An unload that followed a failed one has completed and called the three
\* callbacks.
C32_WitnessDone ==
    /\ me_entry.unload = "done"
    /\ Len(me_entry.called) = 3

\* ---------------------------------------------------------------- C33
\* C33: an update without a roster changes nothing. Hyperion: a response
\* that is empty or has no data key starts no pass and leaves the registered
\* entities, their clients and the registry as they are. motionEye: a
\* coordinator result without the cameras key creates no add task and removes
\* no device. A roster that is an empty list is not such an update: the pass
\* on it removes every entity, the call on it every device.
WithoutRoster(response) == response = EmptyDict \/ KEY_DATA \notin DOMAIN response
C33_NoPayloadChangesNothing ==
    [][/\ last_response' # last_response /\ last_response'.kind \in {"returned", "pass"} =>
             IF WithoutRoster(last_response'.response)
             THEN /\ last_response'.kind = "returned"
                  /\ UNCHANGED <<hyp_vars, entry_state, light_data>>
             ELSE /\ last_response'.kind = "pass"
                  /\ \E t \in Tasks : ~Active(t) /\ Active(t)'
       /\ process' # process /\ process'.pc = "idle" /\ ~process'.has_cameras
                             /\ process'.result # "raised" =>
             /\ process'.result = "no_cameras"
             /\ process'.issued = <<>>
             /\ process'.removed = {}
             /\ UNCHANGED <<devices, current_cameras, add_tasks, camera_signals>>
       /\ \A t \in Tasks : (PassEnded(t) /\ task[t].history.instances = <<>>)' =>
             current_entities' = EmptyDict
       /\ (process.pc = "idle" /\ process.result = "done" /\ process.cameras = <<>>)' =>
             devices' = EmptyDict]_vars

\* A response without data was delivered while entities were registered.
C33_Witness ==
    /\ last_response.kind = "returned"
    /\ Keys(current_entities) # {}
    /\ hass_entities # {}

\* A coordinator result without cameras was handled while the entry had
\* devices.
C33_WitnessMotionEye ==
    /\ process.pc = "idle"
    /\ process.result = "no_cameras"
    /\ Keys(devices) # {}

\* A delivered response with data led to a pass on an empty roster, which
\* removed the entities registered before it.
C33_WitnessEmptyList ==
    /\ last_response.kind = "pass"
    /\ \E t \in Tasks : /\ PassEnded(t)
                        /\ task[t].history.instances = <<>>
                        /\ Keys(task[t].history.before) # {}
                        /\ current_entities = EmptyDict

\* ---------------------------------------------------------------- C34
\* C34: whatever setups and unloads of the entry came before, at most one
\* options-update listener and at most one subscription to the
\* instances-updated signal are active, so that one update of the options
\* requests one reload.
C34_AtMostOneListener ==
    /\ listeners.update_listeners <= 1
    /\ listeners.dispatcher <= 1
    /\ listeners.reloads <= 1

\* C34, the part about the dispatcher: the subscription made at lines 263-269
\* is the one async_unload_entry pops and calls, so at most one is active,
\* and none while the entry is not loaded.
C34_OneDispatcherSubscription ==
    /\ listeners.dispatcher = (IF subscribed THEN 1 ELSE 0)
    /\ entry_state \in {"not_loaded", "unloaded", "setting_up"} => listeners.dispatcher = 0

\* ---------------------------------------------------------------- C35
\* C35: no change of the server's instance list is lost during setup. When
\* the list changed while the first pass of async_setup_entry was awaited,
\* and no later signal followed, then with the entry set up and no pass in
\* flight the registered unique ids are ids of the changed roster, and every
\* running instance of the changed roster is registered, unless the connect
\* to it failed.
C35_NoUpdateLostDuringSetup ==
    (entry_state = "loaded" /\ NoneActive /\ last_response.kind = "unheard") =>
        /\ Keys(current_entities) \subseteq RosterIds(last_response.instances)
        /\ RunningIds(last_response.instances) \subseteq Keys(current_entities) \cup ever_failed

\* ---------------------------------------------------------------- C36
\* C36: the cached brightness, color and effect of an entity change only in
\* a push callback of its client. No step of async_turn_on or async_turn_off
\* changes them, whether the awaited send returned true or false, and a push
\* callback of one entity changes neither current_entities nor the cached
\* state of the other entity.
Cache(state) == <<state.brightness, state.rgb_color, state.effect>>
C36_WitnessFailed ==
    /\ call.result = "returned"
    /\ call.stage = "plan"
    /\ "effect" \in DOMAIN call.kwargs
    /\ call.kwargs.effect # light.effect

\* An async_turn_off has ended on a send that failed, after a push had
\* changed the cached state.
C36_WitnessOff ==
    /\ call.stage = "off"
    /\ call.result = "returned"
    /\ call.replies = <<FALSE>>
    /\ Cache(light) # <<255, DEFAULT_COLOR, KEY_EFFECT_SOLID>>

\* Push callbacks of both entities have set their own cached state.
C36_WitnessPushes ==
    /\ pushed.called
    /\ Cache(light) # Cache(pushed.before)
    /\ Cache(other_light) # Cache(light)
    /\ other_light.rgb_color = <<0, 0, 255>>
    /\ Cardinality(Keys(current_entities)) = 2

\* The setup of the motionEye entry, its refreshes and its unload: the login
\* succeeds, every refresh brings new data or fails, and the cameras are
\* acceptable ones.
SetupCameras == {[id |-> c, name |-> "a"] : c \in CameraIds}
SetupNext ==
    \/ MotionEyeSetupEntry("ok")
    \/ PlatformsSetUp
    \/ ListenerAdded
    \/ RefreshReturned
    \/ CoordinatorUpdateFailed
    \/ \E has_cameras \in BOOLEAN, length \in 0..MaxRoster :
          CoordinatorUpdated(has_cameras, length, FALSE)
    \/ \E camera \in SetupCameras : NextCamera(camera)
    \/ EndOfCameras
    \/ AddCamera
    \/ \E unload_ok \in BOOLEAN : MotionEyeUnloadEntry(unload_ok)
    \/ MotionEyeUnloaded
SetupSpec == Init /\ [][SetupNext]_vars

\* ---------------------------------------------------------------- C37
\* C37: the order of the motionEye setup. The camera platform is connected
\* to the camera-add signal before the listener is added to the coordinator,
\* and the listener is added before the first refresh: the callbacks are
\* stored in that order, the listener is added only while the platform is
\* connected, and the coordinator calls the listener only once it is added.
\* Hence every camera-add signal is sent after the platform was connected,
\* and the first roster a fetch returns is handed to the listener in the
\* step that fetched it.
SetupOrder == <<"camera_add", "listener", "update_listener">>
C37_SetupOrder ==
    [][/\ (me_entry.on_unload = SubSeq(SetupOrder, 1, Len(me_entry.on_unload)))'
       /\ (~me_entry.listening /\ me_entry'.listening) =>
             /\ me_entry.camera_add
             /\ process.result = "none"
             /\ ~me_entry.fetched
       /\ process' # process => "listener" \in Range(me_entry.on_unload)
       /\ (add_tasks' # add_tasks \/ camera_signals' # camera_signals) =>
             "camera_add" \in Range(me_entry.on_unload)
       /\ (~me_entry.fetched /\ me_entry'.fetched) =>
             /\ me_entry.listening
             /\ process.result \in {"none", "raised"}
             /\ process' # process
             /\ process'.result \in {"running", "no_cameras"}
       /\ (me_entry.setup_then_listen = "done")' => process'.result # "none"]_vars

\* The setup has run to its end: the first refresh fetched a roster, its
\* cameras were added and their signals sent.
C37_Witness ==
    /\ me_entry.setup_then_listen = "done"
    /\ me_entry.fetched
    /\ me_entry.on_unload = SetupOrder
    /\ Len(camera_signals) = 2
    /\ me_entry.unload = "none"

====
